---- MODULE Spec2Model ----
(***************************************************************************)
(* FormBot backend (src/src/backend/lambda_function.py).                   *)
(*                                                                         *)
(* The handler is a stateless request function; the state is what the      *)
(* managed services hold between requests: the user table, the profile     *)
(* table (primary key profileId, src/src/backend/create_tables.py:39-41),  *)
(* the document table, the object store and the cache.  One action models  *)
(* one request, from routing to the response; the store calls that run     *)
(* side by side are split at their cache commands.  A table is a function  *)
(* whose DOMAIN is the set of stored keys, a JSON object is a function     *)
(* from key strings to values.                                             *)
(*                                                                         *)
(* The durable tables answer every call, except in the fault workload,     *)
(* where one store call of a request raises; the outcomes of the cache     *)
(* connection, of the object store, of the completion service and of the   *)
(* execution-time budget are inputs of the requests that use them.         *)
(* Attributes that no handler reads back (display name, picture, settings, *)
(* last login) are left out of the records.                                *)
(***************************************************************************)
EXTENDS Integers, Sequences, FiniteSets, TLC

\* ------------------------------------------------------------------ bounds
\* Requests served in one behaviour of the profile specification (the clock
\* advances by one per request).
MaxTime == 3
\* Requests served in one behaviour of the field-mapping specification.
MaxRequests == 4
\* Requests served in one behaviour of the batch specification, and the
\* longest mappings list the completion service answers with.
MaxBatches == 2
MaxMappings == 2
\* Timestamped writes in one behaviour of the routing specification.
MaxRouted == 1
\* Store calls in flight side by side.
MaxCalls == 3

\* ------------------------------------------------------ python-like values
None == "<None>"

Truthy(v) == v \notin {None, ""}

EmptyDict == [k \in {} |-> ""]

\* dict.get(k) / dict.get(k, default)
Get(d, k) == IF k \in DOMAIN d THEN d[k] ELSE None
GetOr(d, k, dflt) == IF k \in DOMAIN d THEN d[k] ELSE dflt

\* a or b or ... : the first truthy operand, None when there is none
RECURSIVE FirstTruthy(_)
FirstTruthy(vs) ==
    IF vs = <<>> THEN None
    ELSE IF Truthy(Head(vs)) THEN Head(vs) ELSE FirstTruthy(Tail(vs))

\* {**d1, **d2} for dicts with disjoint keys
Merge(d1, d2) ==
    [k \in DOMAIN d1 \cup DOMAIN d2 |-> IF k \in DOMAIN d1 THEN d1[k] ELSE d2[k]]

\* table.put_item(Item=item) under primary key k
PutItem(tbl, k, item) ==
    [x \in DOMAIN tbl \cup {k} |-> IF x = k THEN item ELSE tbl[x]]

\* a table without key k
Without(tbl, k) == [x \in DOMAIN tbl \ {k} |-> tbl[x]]

\* ---------------------------------------------------------------- strings
\* str.lower().strip() on the e-mail spellings the requests carry
LowerStrip(s) ==
    CASE s \in {"a@x", "A@X", " a@x "} -> "a@x"
      [] s \in {"b@x", "B@X"} -> "b@x"
      [] s \in {"", " ", None} -> ""
      [] OTHER -> s

\* ------------------------------------------------------------------ state
VARIABLES
    users,      \* user table: userId -> [email, createdAt]
    profiles,   \* profile table: profileId -> profile item
    now,        \* int(time.time() * 1000) of the request being served
    resp,       \* the last request and its response
    registered, \* history: userId -> the successful sign-ins of that user
    delivered,  \* history: profileId -> the deliveries merged into the record
    redis,      \* cache: key string -> mapping entry or counter
    stored,     \* history: signature -> what was last stored and looked up
    documents,  \* document table: <<userId, documentId>> -> metadata item
    objects,    \* object store: the keys that hold a blob
    calls,      \* requests served step by step: caller -> its position
    writes,     \* history: network address -> store calls that set an entry
    routed      \* history: method, path and route of the last routed request

pvars == <<users, profiles, now, resp, registered, delivered>>
cvars == <<redis, stored>>
dvars == <<documents, objects>>
svars == <<calls, writes>>
vars == <<users, profiles, now, resp, registered, delivered, redis, stored,
          documents, objects, calls, writes, routed>>

UserIds == {"u1", "u2"}

DefaultPid == "default"

NoResp ==
    [op |-> "none", status |-> 0, userId |-> None, isNewUser |-> FALSE,
     profileId |-> None, action |-> "", event |-> EmptyDict,
     headers |-> EmptyDict, error |-> None, documentId |-> None,
     objectKey |-> None, objectCall |-> "none", objectFailed |-> FALSE,
     foundOwner |-> None, previousRows |-> 0, raised |-> None]

Response(op, status) == [NoResp EXCEPT !.op = op, !.status = status]

\* ----------------------------------------------------- handle_user_register
IsNewUserMutant(tbl, user_id) == TRUE
IsNewUser(tbl, user_id) == user_id \notin DOMAIN tbl

RegisterEmailMutant(body) == GetOr(body, "email", "")
RegisterEmail(body) == LowerStrip(GetOr(body, "email", ""))

UserItem(tbl, user_id, email, timestamp) ==
    [email |-> email,
     createdAt |-> IF user_id \in DOMAIN tbl /\ tbl[user_id].createdAt # 0
                   THEN tbl[user_id].createdAt ELSE timestamp]

DefaultProfileItem(user_id, timestamp) ==
    [userId |-> user_id, label |-> "Default Profile",
     fields |-> [rowsKind |-> "absent", rows |-> <<>>, flat |-> EmptyDict],
     source |-> "user", sourceId |-> None, profileType |-> None,
     isDefault |-> TRUE, createdAt |-> timestamp, updatedAt |-> timestamp]

\* fault names the store call of the request that raises an exception, NoFault
\* when none does; the text of the exception is written as the name
NoFault == "none"

UserRegister(body, fault) ==
    LET user_id == Get(body, "userId")
        email == RegisterEmail(body)
        timestamp == now + 1
        \* a failed read is passed over and leaves existing_user at None
        read == IF fault = "users.get_item" THEN EmptyDict ELSE users
        is_new_user == IsNewUser(read, user_id)
        failed == [Response("register", 400) EXCEPT
                      !.event = body, !.raised = fault,
                      !.error = "Registration failed: " \o fault]
    IN  /\ now < MaxTime
        /\ now' = timestamp
        /\ UNCHANGED <<cvars, dvars, svars>>
        /\ IF ~Truthy(user_id) \/ ~Truthy(email)
           THEN /\ resp' = [Response("register", 400) EXCEPT !.event = body]
                /\ UNCHANGED <<users, profiles, registered, delivered>>
           ELSE IF fault = "users.put_item"
           THEN /\ resp' = failed
                /\ UNCHANGED <<users, profiles, registered, delivered>>
           ELSE IF fault = "profiles.put_item" /\ is_new_user
           THEN /\ users' = PutItem(users, user_id,
                                    UserItem(read, user_id, email, timestamp))
                /\ resp' = failed
                /\ UNCHANGED <<profiles, registered, delivered>>
           ELSE /\ users' = PutItem(users, user_id,
                                    UserItem(read, user_id, email, timestamp))
                /\ profiles' = IF is_new_user
                               THEN PutItem(profiles, DefaultPid,
                                            DefaultProfileItem(user_id, timestamp))
                               ELSE profiles
                /\ resp' = [Response("register", 200) EXCEPT
                                !.userId = user_id, !.isNewUser = is_new_user,
                                !.event = body,
                                !.raised = IF fault = "users.get_item"
                                           THEN fault ELSE None]
                /\ registered' = PutItem(registered, user_id,
                                     IF user_id \in DOMAIN registered
                                     THEN registered[user_id] + 1 ELSE 1)
                /\ delivered' = IF is_new_user THEN Without(delivered, DefaultPid)
                                ELSE delivered

HandleUserRegister(body) == UserRegister(body, NoFault)

\* ------------------------------------------------ handle_email_registration
HandleEmailRegistration(body) ==
    LET user_id == Get(body, "userId")
        email == LowerStrip(GetOr(body, "email", ""))
        timestamp == now + 1
    IN  /\ now < MaxTime
        /\ now' = timestamp
        /\ UNCHANGED <<cvars, dvars, svars>>
        /\ UNCHANGED <<profiles, registered, delivered>>
        /\ IF ~Truthy(user_id) \/ ~Truthy(email)
           THEN /\ resp' = [Response("register-by-email", 400) EXCEPT !.event = body]
                /\ UNCHANGED users
           ELSE /\ users' = PutItem(users, user_id,
                                [email |-> email,
                                 createdAt |-> IF user_id \in DOMAIN users
                                               THEN users[user_id].createdAt ELSE 0])
                /\ resp' = [Response("register-by-email", 200) EXCEPT
                                !.userId = user_id, !.event = body]

\* ---------------------------------------------------- handle_zapier_webhook
\* str.lower() on the payload keys and source tags the requests carry
Lower(s) ==
    CASE s = "rowNumber" -> "rownumber"
      [] s = "spreadsheetId" -> "spreadsheetid"
      [] s = "sheetId" -> "sheetid"
      [] s = "sheetName" -> "sheetname"
      [] s = "userId" -> "userid"
      [] s = "employeeId" -> "employeeid"
      [] s = "googleAccountEmail" -> "googleaccountemail"
      [] s = "Sheets" -> "sheets"
      [] s = None -> ""
      [] OTHER -> s

\* key.startswith(('1.', '2.', '3.')) or key.startswith('col_')
HasColumnPrefix(k) == k \in {"col_a", "col_b", "1. Name", "2. Email"}

ZapId(headers) ==
    FirstTruthy(<<Get(headers, "X-Zapier-Zap-Id"), Get(headers, "X-Zap-Id"),
                  Get(headers, "X-Zapier-Webhook-Id")>>)

WebhookEmailMutant(body) ==
    LET e == FirstTruthy(<<Get(body, "email"), Get(body, "Email"),
                           Get(body, "userEmail"), Get(body, "googleUserEmail"),
                           Get(body, "zapierUserEmail"), Get(body, "sheetUserEmail")>>)
    IN  IF Truthy(e) THEN e ELSE ""
WebhookEmail(body) ==
    LowerStrip(FirstTruthy(<<Get(body, "email"), Get(body, "Email"),
                             Get(body, "userEmail"), Get(body, "googleUserEmail"),
                             Get(body, "zapierUserEmail"), Get(body, "sheetUserEmail")>>))

HeaderEmail(headers) ==
    LowerStrip(FirstTruthy(<<Get(headers, "X-Zapier-User-Email"),
                             Get(headers, "X-User-Email"),
                             Get(headers, "X-Google-User-Email")>>))

GoogleEmail(body) ==
    LowerStrip(FirstTruthy(<<Get(body, "googleAccountEmail"), Get(body, "googleEmail"),
                             Get(body, "accountEmail"), Get(body, "sheetsUserEmail")>>))

\* users_table.scan(FilterExpression=Attr('email').eq(email))
ScanByEmail(tbl, email) == {u \in DOMAIN tbl : tbl[u].email = email}

\* the exact scan, then the scan of all users filtered case-insensitively
LookupByEmail(tbl, email) ==
    IF ScanByEmail(tbl, email) # {} THEN ScanByEmail(tbl, email)
    ELSE {u \in DOMAIN tbl : LowerStrip(tbl[u].email) = email}

ResolveUserMutant(tbl, body, headers) ==
    LET direct == Get(body, "userId")
        email == WebhookEmail(body)
    IN  IF Truthy(direct) THEN {[status |-> 200, userId |-> direct]}
        ELSE IF Truthy(email)
        THEN IF LookupByEmail(tbl, email) # {}
             THEN {[status |-> 200, userId |-> u] : u \in LookupByEmail(tbl, email)}
             ELSE {[status |-> 200, userId |-> email]}
        ELSE {[status |-> 400, userId |-> None]}
\* The outcomes of user resolution: items[0] of a scan is any matching item.
ResolveUser(tbl, body, headers) ==
    LET direct == Get(body, "userId")
        email == WebhookEmail(body)
        fromHeaders == IF Truthy(HeaderEmail(headers))
                       THEN ScanByEmail(tbl, HeaderEmail(headers)) ELSE {}
        fromGoogle == IF Truthy(GoogleEmail(body))
                      THEN ScanByEmail(tbl, GoogleEmail(body)) ELSE {}
    IN  IF Truthy(direct) THEN {[status |-> 200, userId |-> direct]}
        ELSE IF Truthy(email)
        THEN IF LookupByEmail(tbl, email) # {}
             THEN {[status |-> 200, userId |-> u] : u \in LookupByEmail(tbl, email)}
             ELSE {[status |-> 404, userId |-> None]}
        ELSE IF fromHeaders # {}
        THEN {[status |-> 200, userId |-> u] : u \in fromHeaders}
        ELSE IF fromGoogle # {}
        THEN {[status |-> 200, userId |-> u] : u \in fromGoogle}
        ELSE {[status |-> 400, userId |-> None]}

HasRowNumber(body) ==
    \E k \in DOMAIN body :
        Lower(k) \in {"rownumber", "row_number", "row", "rowid", "row_id", "rownum"}

HasSheetIndicators(body) ==
    \E k \in DOMAIN body :
        Lower(k) \in {"spreadsheetid", "sheetid", "sheet_id", "spreadsheet_id",
                      "googlesheets", "sheetname", "spreadsheet", "worksheet"}

HasSourceIndicator(body) ==
    Lower(GetOr(body, "source", "")) \in {"google-sheets", "googlesheets", "sheets"}

HasZapierColumnPattern(body) == \E k \in DOMAIN body : HasColumnPrefix(k)

EmployeeId(body) == FirstTruthy(<<Get(body, "employeeId"), Get(body, "id")>>)

\* is_google_sheets after line 859
IsGoogleSheetsMutant(body) ==
    \/ HasRowNumber(body) \/ HasSheetIndicators(body)
    \/ HasSourceIndicator(body)
    \/ ~Truthy(EmployeeId(body))
IsGoogleSheets(body) ==
    \/ HasRowNumber(body) \/ HasSheetIndicators(body)
    \/ HasSourceIndicator(body) \/ HasZapierColumnPattern(body)
    \/ ~Truthy(EmployeeId(body))

RowNumber(body, dflt) ==
    LET r == FirstTruthy(<<Get(body, "rowNumber"), Get(body, "row_number"),
                           Get(body, "row"), Get(body, "row_id")>>)
    IN  IF Truthy(r) THEN r ELSE dflt

SpreadsheetId(body) ==
    FirstTruthy(<<Get(body, "spreadsheetId"), Get(body, "spreadsheet_id"),
                  Get(body, "sheetId"), Get(body, "sheet_id"),
                  Get(body, "spreadsheet"), Get(body, "worksheet")>>)

DeriveProfileIdMutantPriority(body, zap_id, user_id) ==
    IF IsGoogleSheets(body)
    THEN IF Truthy(zap_id) THEN "googlesheets_zap_" \o zap_id
         ELSE IF Truthy(SpreadsheetId(body))
         THEN "googlesheets_" \o SpreadsheetId(body)
         ELSE "googlesheets_" \o user_id
    ELSE "crm_" \o user_id
DeriveProfileIdMutantFallback(body, zap_id, user_id) ==
    IF IsGoogleSheets(body)
    THEN IF Truthy(SpreadsheetId(body)) THEN "googlesheets_" \o SpreadsheetId(body)
         ELSE IF Truthy(zap_id) THEN "googlesheets_zap_" \o zap_id
         ELSE "googlesheets_" \o RowNumber(body, "1")
    ELSE "crm_" \o user_id
DeriveProfileIdMutantCrm(body, zap_id, user_id) ==
    IF IsGoogleSheets(body)
    THEN IF Truthy(SpreadsheetId(body)) THEN "googlesheets_" \o SpreadsheetId(body)
         ELSE IF Truthy(zap_id) THEN "googlesheets_zap_" \o zap_id
         ELSE "googlesheets_" \o user_id
    ELSE "crm_" \o EmployeeId(body)
DeriveProfileId(body, zap_id, user_id) ==
    IF IsGoogleSheets(body)
    THEN IF Truthy(SpreadsheetId(body)) THEN "googlesheets_" \o SpreadsheetId(body)
         ELSE IF Truthy(zap_id) THEN "googlesheets_zap_" \o zap_id
         ELSE "googlesheets_" \o user_id
    ELSE "crm_" \o user_id

SourceId(body, zap_id, user_id) ==
    IF IsGoogleSheets(body)
    THEN LET s == FirstTruthy(<<Get(body, "spreadsheetId"), Get(body, "spreadsheet_id"),
                                Get(body, "sheetId"), zap_id>>)
         IN  IF Truthy(s) THEN s ELSE "sheet_" \o user_id
    ELSE "crm_" \o user_id

SheetName(body) ==
    IF Truthy(Get(body, "name")) THEN Get(body, "name")
    ELSE IF Truthy(GetOr(body, "firstName", "")) \/ Truthy(GetOr(body, "lastName", ""))
    THEN "<firstName lastName>"
    ELSE "Google Sheets Data"

WebhookLabel(body) ==
    IF IsGoogleSheets(body) THEN "Google Sheets: " \o SheetName(body)
    ELSE "CRM: CRM Data"

MetadataFields ==
    {"userId", "employeeId", "id", "email", "spreadsheetId", "sheetId",
     "rowNumber", "row", "row_id"}

ProfileFields(body) ==
    [k \in {x \in DOMAIN body : x \notin MetadataFields /\ Truthy(body[x])} |-> body[k]]

\* profiles_table.get_item by id, kept only when owned by user_id; for CRM data
\* a scan by (userId, sourceId) when the id lookup gave nothing.  The result
\* is the set of possible (existing profile id | None, target id) pairs.
FindExistingMutant(tbl, body, profile_id, source_id, user_id) ==
    LET byId == profile_id \in DOMAIN tbl
        bySource == {q \in DOMAIN tbl : /\ tbl[q].userId = user_id
                                        /\ tbl[q].sourceId = source_id}
    IN  IF byId THEN {[existing |-> profile_id, target |-> profile_id]}
        ELSE IF Truthy(source_id) /\ ~IsGoogleSheets(body) /\ bySource # {}
        THEN {[existing |-> q, target |-> q] : q \in bySource}
        ELSE {[existing |-> None, target |-> profile_id]}
FindExisting(tbl, body, profile_id, source_id, user_id) ==
    LET byId == profile_id \in DOMAIN tbl /\ tbl[profile_id].userId = user_id
        bySource == {q \in DOMAIN tbl : /\ tbl[q].userId = user_id
                                        /\ tbl[q].sourceId = source_id}
    IN  IF byId THEN {[existing |-> profile_id, target |-> profile_id]}
        ELSE IF Truthy(source_id) /\ ~IsGoogleSheets(body) /\ bySource # {}
        THEN {[existing |-> q, target |-> q] : q \in bySource}
        ELSE {[existing |-> None, target |-> profile_id]}

\* rows_array read from the stored fields (lines 961-977)
RowsArray(existing_fields) ==
    IF existing_fields.rowsKind = "list" THEN existing_fields.rows
    ELSE IF existing_fields.rowsKind = "absent" /\ existing_fields.flat # EmptyDict
    THEN <<existing_fields.flat>>
    ELSE <<>>

\* new_row = profile_fields.copy(); new_row['row'] = str(row_number)
NewRow(profile_fields, row_number) ==
    [k \in DOMAIN profile_fields \cup {"row"} |->
        IF k = "row" THEN row_number ELSE profile_fields[k]]

\* the fields written by the delivery (lines 958-1001)
MergedRowsMutant(tbl, existing, body) ==
    <<NewRow(ProfileFields(body), RowNumber(body, "1"))>>
MergedRows(tbl, existing, body) ==
    IF existing # None
    THEN LET rows_array == RowsArray(tbl[existing].fields)
         IN  Append(rows_array,
                    NewRow(ProfileFields(body),
                           RowNumber(body, ToString(Len(rows_array) + 1))))
    ELSE <<NewRow(ProfileFields(body), RowNumber(body, "1"))>>

WebhookItem(tbl, existing, body, zap_id, user_id, timestamp) ==
    [userId |-> user_id,
     label |-> WebhookLabel(body),
     fields |-> [rowsKind |-> "list", rows |-> MergedRows(tbl, existing, body),
                 flat |-> EmptyDict],
     source |-> IF IsGoogleSheets(body) THEN "google-sheets" ELSE "zapier",
     sourceId |-> SourceId(body, zap_id, user_id),
     profileType |-> IF IsGoogleSheets(body) THEN "google-sheets"
                     ELSE GetOr(body, "profileType", "zapier"),
     isDefault |-> FALSE,
     createdAt |-> IF existing # None THEN tbl[existing].createdAt ELSE timestamp,
     updatedAt |-> timestamp]

\* History of a delivery by user_id merged into record target: it continues the
\* record's run of deliveries by the same user, starts a run on a record that
\* did not exist, and otherwise the record is no run of deliveries.
Delivery(target, user_id, body) ==
    IF target \in DOMAIN delivered /\ delivered[target].owner = user_id
    THEN [delivered EXCEPT ![target].bodies = Append(@, body)]
    ELSE IF target \notin DOMAIN profiles
    THEN PutItem(delivered, target, [owner |-> user_id, bodies |-> <<body>>])
    ELSE Without(delivered, target)

HandleZapierWebhook(body, headers) ==
    LET timestamp == now + 1
        zap_id == ZapId(headers)
    IN  /\ now < MaxTime
        /\ now' = timestamp
        /\ UNCHANGED <<cvars, dvars, svars>>
        /\ UNCHANGED <<users, registered>>
        /\ IF body = EmptyDict
           THEN /\ resp' = [Response("webhook", 400) EXCEPT
                                !.event = body, !.headers = headers]
                /\ UNCHANGED <<profiles, delivered>>
           ELSE \E r \in ResolveUser(users, body, headers) :
                IF r.status # 200
                THEN /\ resp' = [Response("webhook", r.status) EXCEPT
                                     !.event = body, !.headers = headers]
                     /\ UNCHANGED <<profiles, delivered>>
                ELSE LET user_id == r.userId
                         profile_id == DeriveProfileId(body, zap_id, user_id)
                         source_id == SourceId(body, zap_id, user_id)
                     IN  \E f \in FindExisting(profiles, body, profile_id,
                                               source_id, user_id) :
                           /\ profiles' = PutItem(profiles, f.target,
                                              WebhookItem(profiles, f.existing, body,
                                                          zap_id, user_id, timestamp))
                           /\ resp' = [Response("webhook", 200) EXCEPT
                                           !.userId = user_id,
                                           !.profileId = f.target,
                                           !.action = IF f.existing # None
                                                      THEN "updated" ELSE "created",
                                           !.event = body, !.headers = headers,
                                           !.foundOwner =
                                               IF profile_id \in DOMAIN profiles
                                               THEN profiles[profile_id].userId
                                               ELSE None]
                           /\ delivered' = Delivery(f.target, user_id, body)

\* ------------------------------ handle_user_register, store call by store call
\* Registrations that run side by side, each at one call on the user or the
\* profile table.  writes counts, per user id, the put_item calls that wrote
\* the default profile.
\* from the entry of the handler to the answer of get_item
RegisterGet(p, body) ==
    LET user_id == Get(body, "userId")
        email == RegisterEmail(body)
        timestamp == now + 1
        call == [pc |-> "done", op |-> "register", body |-> body,
                 status |-> 400, userId |-> user_id, isNewUser |-> FALSE,
                 read |-> EmptyDict, timestamp |-> timestamp]
    IN  /\ p \notin DOMAIN calls
        /\ now' = timestamp
        /\ UNCHANGED <<users, profiles, resp, registered, delivered>>
        /\ UNCHANGED <<cvars, dvars, writes>>
        /\ calls' = PutItem(calls, p,
              IF ~Truthy(user_id) \/ ~Truthy(email)
              THEN call
              ELSE [call EXCEPT
                       !.pc = "put_user", !.status = 0,
                       !.isNewUser = IsNewUser(users, user_id),
                       !.read = [u \in DOMAIN users \cap {user_id} |-> users[u]]])

\* put_item of the user record
RegisterPutUser(p) ==
    LET call == calls[p]
    IN  /\ p \in DOMAIN calls /\ calls[p].pc = "put_user"
        /\ UNCHANGED <<profiles, now, resp, registered, delivered>>
        /\ UNCHANGED <<cvars, dvars, writes>>
        /\ users' = PutItem(users, call.userId,
                            UserItem(call.read, call.userId,
                                     RegisterEmail(call.body), call.timestamp))
        /\ calls' = [calls EXCEPT ![p] =
                        IF call.isNewUser
                        THEN [call EXCEPT !.pc = "put_profile"]
                        ELSE [call EXCEPT !.pc = "done", !.status = 200]]

\* put_item of the default profile of a user taken for new, and the answer
RegisterPutProfile(p) ==
    LET call == calls[p]
    IN  /\ p \in DOMAIN calls /\ calls[p].pc = "put_profile"
        /\ UNCHANGED <<users, now, resp, registered, delivered>>
        /\ UNCHANGED <<cvars, dvars>>
        /\ profiles' = PutItem(profiles, "default",
                               DefaultProfileItem(call.userId, call.timestamp))
        /\ writes' = PutItem(writes, call.userId,
                             GetOr(writes, call.userId, 0) + 1)
        /\ calls' = [calls EXCEPT ![p] = [call EXCEPT !.pc = "done",
                                                      !.status = 200]]

\* ----------------------------- handle_zapier_webhook, store call by store call
\* Deliveries that run side by side: each caller is at one call on the
\* profile table, and a step is that call together with the local code up to
\* the next one.  The table serves one call at a time.
\* the stored item a delivery has read, as the table its merge works on
SnapshotMutant(call, tbl) == tbl
Snapshot(call, tbl) == [q \in {call.existing} \ {None} |-> call.base]

\* from the entry of the handler to the answer of get_item by the derived id
DeliveryGet(p, body, headers) ==
    LET timestamp == now + 1
        zap_id == ZapId(headers)
        call == [pc |-> "done", op |-> "webhook", body |-> body,
                 headers |-> headers, status |-> 0, userId |-> None,
                 target |-> None, existing |-> None,
                 base |-> DefaultProfileItem("", 0), timestamp |-> timestamp]
    IN  /\ p \notin DOMAIN calls
        /\ now' = timestamp
        /\ UNCHANGED <<users, profiles, resp, registered, delivered>>
        /\ UNCHANGED <<cvars, dvars, writes>>
        /\ IF body = EmptyDict
           THEN calls' = PutItem(calls, p, [call EXCEPT !.status = 400])
           ELSE \E r \in ResolveUser(users, body, headers) :
                IF r.status # 200
                THEN calls' = PutItem(calls, p, [call EXCEPT !.status = r.status])
                ELSE LET user_id == r.userId
                         profile_id == DeriveProfileId(body, zap_id, user_id)
                         source_id == SourceId(body, zap_id, user_id)
                         found == /\ profile_id \in DOMAIN profiles
                                  /\ profiles[profile_id].userId = user_id
                     IN  calls' = PutItem(calls, p,
                            IF found
                            THEN [call EXCEPT !.pc = "put", !.userId = user_id,
                                              !.target = profile_id,
                                              !.existing = profile_id,
                                              !.base = profiles[profile_id]]
                            ELSE [call EXCEPT
                                     !.pc = IF /\ Truthy(source_id)
                                               /\ ~IsGoogleSheets(body)
                                            THEN "scan" ELSE "put",
                                     !.userId = user_id,
                                     !.target = profile_id])

\* the scan by (userId, sourceId) of a CRM delivery whose id lookup gave nothing
DeliveryScan(p) ==
    LET call == calls[p]
        source_id == SourceId(call.body, ZapId(call.headers), call.userId)
        items == {q \in DOMAIN profiles : /\ profiles[q].userId = call.userId
                                          /\ profiles[q].sourceId = source_id}
    IN  /\ p \in DOMAIN calls /\ calls[p].pc = "scan"
        /\ UNCHANGED <<pvars, cvars, dvars, writes>>
        /\ IF items = {}
           THEN calls' = [calls EXCEPT ![p] = [call EXCEPT !.pc = "put"]]
           ELSE \E q \in items :
                  calls' = [calls EXCEPT ![p] =
                               [call EXCEPT !.pc = "put", !.target = q,
                                            !.existing = q,
                                            !.base = profiles[q]]]

\* put_item of the merged record, and the answer
DeliveryPut(p) ==
    LET call == calls[p]
    IN  /\ p \in DOMAIN calls /\ calls[p].pc = "put"
        /\ UNCHANGED <<users, now, resp, registered, delivered>>
        /\ UNCHANGED <<cvars, dvars, writes>>
        /\ profiles' = PutItem(profiles, call.target,
                               WebhookItem(Snapshot(call, profiles),
                                           call.existing, call.body,
                                           ZapId(call.headers), call.userId,
                                           call.timestamp))
        /\ calls' = [calls EXCEPT ![p] = [call EXCEPT !.pc = "done",
                                                      !.status = 200]]

\* ---------------------------------------------------- handle_create_profile
\* POST and PUT /api/profiles (handle_update_profile calls the same code)
NoFields == [rowsKind |-> "absent", rows |-> <<>>, flat |-> EmptyDict]

\* the item put by the upsert
CreateProfileItemMutant(tbl, body, profile_id, timestamp) ==
    LET exists == profile_id \in DOMAIN tbl
    IN  [userId |-> Get(body, "userId"),
         label |-> GetOr(body, "label", "New Profile"),
         fields |-> IF exists /\ "fields" \notin DOMAIN body
                    THEN tbl[profile_id].fields
                    ELSE GetOr(body, "fields", NoFields),
         source |-> GetOr(body, "source", "user"),
         sourceId |-> Get(body, "sourceId"),
         profileType |-> Get(body, "profileType"),
         isDefault |-> GetOr(body, "isDefault", FALSE),
         createdAt |-> IF exists THEN tbl[profile_id].createdAt ELSE timestamp,
         updatedAt |-> timestamp]
CreateProfileItem(tbl, body, profile_id, timestamp) ==
    LET exists == profile_id \in DOMAIN tbl
    IN  [userId |-> Get(body, "userId"),
         label |-> GetOr(body, "label", "New Profile"),
         fields |-> GetOr(body, "fields", NoFields),
         source |-> GetOr(body, "source", "user"),
         sourceId |-> Get(body, "sourceId"),
         profileType |-> Get(body, "profileType"),
         isDefault |-> GetOr(body, "isDefault", FALSE),
         createdAt |-> IF exists THEN tbl[profile_id].createdAt ELSE timestamp,
         updatedAt |-> timestamp]

CreateProfile(body, fault) ==
    LET user_id == Get(body, "userId")
        timestamp == now + 1
        profile_id == GetOr(body, "profileId", "profile_" \o ToString(timestamp))
        \* a failed read is passed over and leaves existing_profile at None
        read == IF fault = "profiles.get_item" THEN EmptyDict ELSE profiles
        exists == profile_id \in DOMAIN read
    IN  /\ now < MaxTime
        /\ now' = timestamp
        /\ UNCHANGED <<cvars, dvars, svars>>
        /\ UNCHANGED <<users, registered>>
        /\ IF ~Truthy(user_id)
           THEN /\ resp' = [Response("create-profile", 400) EXCEPT
                                !.event = body]
                /\ UNCHANGED <<profiles, delivered>>
           ELSE IF fault = "profiles.put_item"
           THEN /\ resp' = [Response("create-profile", 400) EXCEPT
                                !.event = body, !.raised = fault,
                                !.error = fault]
                /\ UNCHANGED <<profiles, delivered>>
           ELSE /\ profiles' = PutItem(profiles, profile_id,
                                       CreateProfileItem(read, body, profile_id,
                                                         timestamp))
                /\ resp' = [Response("create-profile", 200) EXCEPT
                                !.userId = user_id, !.profileId = profile_id,
                                !.action = IF exists THEN "updated" ELSE "created",
                                !.event = body,
                                !.previousRows =
                                    IF exists
                                    THEN Len(profiles[profile_id].fields.rows)
                                    ELSE 0,
                                !.raised = IF fault = "profiles.get_item"
                                           THEN fault ELSE None]
                /\ delivered' = Without(delivered, profile_id)

HandleCreateProfile(body) == CreateProfile(body, NoFault)

\* ------------------------------------------------ handle_store_employee_data
HandleStoreEmployeeData(body) ==
    LET user_id == Get(body, "userId")
        timestamp == now + 1
        employee_id == GetOr(body, "employeeId", "emp_" \o ToString(timestamp))
        fields_data == [k \in DOMAIN body \ {"userId", "employeeId"} |-> body[k]]
    IN  /\ now < MaxTime
        /\ now' = timestamp
        /\ UNCHANGED <<cvars, dvars, svars>>
        /\ UNCHANGED <<users, registered>>
        /\ IF ~Truthy(user_id)
           THEN /\ resp' = Response("store-employee", 400)
                /\ UNCHANGED <<profiles, delivered>>
           ELSE /\ profiles' = PutItem(profiles, "crm_" \o employee_id,
                    [userId |-> user_id,
                     label |-> "Employee: " \o
                               (IF Truthy(Get(body, "name")) THEN Get(body, "name")
                                ELSE IF \/ Truthy(GetOr(body, "firstName", ""))
                                        \/ Truthy(GetOr(body, "lastName", ""))
                                THEN "<firstName lastName>"
                                ELSE "Employee Data"),
                     fields |-> [rowsKind |-> "absent", rows |-> <<>>,
                                 flat |-> fields_data],
                     source |-> "crm", sourceId |-> None, profileType |-> None,
                     isDefault |-> FALSE,
                     createdAt |-> timestamp, updatedAt |-> timestamp])
                /\ resp' = [Response("store-employee", 200) EXCEPT
                                !.userId = user_id,
                                !.profileId = "crm_" \o employee_id,
                                !.action = "created"]
                /\ delivered' = Without(delivered, "crm_" \o employee_id)

\* ------------------------------------------------------- request paths
\* A path is the sequence of the pieces of its string: every "/" is a piece,
\* a stage name is spelled letter by letter and every other segment is one
\* piece, so that a slice by a character count inside a stage prefix is exact.
\* str.split('/')[-1]
LastSegment(path) ==
    IF path = <<>> \/ path[Len(path)] = "/" THEN "" ELSE path[Len(path)]

\* --------------------------------------------------------------- documents
\* Of a metadata item the key, the blob key and the profile id are kept; the
\* other attributes are copied from the body in the same way.
DocumentKey(user_id, document_id) == <<user_id, document_id>>

\* the key handle_document_upload gives the blob; nonce is the uuid4 prefix
\* and the second of the upload
S3Key(user_id, nonce, file_name) ==
    "documents/" \o user_id \o "/" \o nonce \o "_" \o file_name

\* --------------------------------------------------- handle_document_upload
HandleDocumentUpload(form, nonce, s3_ok) ==
    LET user_id == Get(form, "userId")
        file_name == GetOr(form, "filename", "document_" \o nonce)
        s3_key == S3Key(user_id, nonce, file_name)
    IN  /\ UNCHANGED <<users, profiles, now, registered, delivered>>
        /\ UNCHANGED <<cvars, svars, documents>>
        /\ IF ~Truthy(Get(form, "file"))
           THEN /\ resp' = [Response("upload-document", 400) EXCEPT
                                !.error = "No file data provided"]
                /\ UNCHANGED objects
           ELSE IF ~Truthy(user_id)
           THEN /\ resp' = [Response("upload-document", 400) EXCEPT
                                !.error = "userId is required"]
                /\ UNCHANGED objects
           ELSE IF ~s3_ok
           THEN /\ resp' = [Response("upload-document", 500) EXCEPT
                                !.userId = user_id, !.objectKey = s3_key,
                                !.objectCall = "put", !.objectFailed = TRUE,
                                !.error = "S3 upload failed: <s3_error>"]
                /\ UNCHANGED objects
           ELSE /\ objects' = objects \cup {s3_key}
                /\ resp' = [Response("upload-document", 200) EXCEPT
                                !.userId = user_id, !.objectKey = s3_key,
                                !.objectCall = "put"]

\* ----------------------------------------------------- handle_save_document
DocumentItem(body) ==
    [documentId |-> Get(body, "id"), userId |-> Get(body, "userId"),
     s3Key |-> GetOr(body, "s3Key", ""),
     profileId |-> GetOr(body, "profileId", "")]

HandleSaveDocumentMutant(body) ==
    LET document_id == Get(body, "id")
        user_id == Get(body, "userId")
    IN  /\ UNCHANGED <<users, profiles, now, registered, delivered>>
        /\ UNCHANGED <<cvars, svars>>
        /\ IF ~Truthy(document_id) \/ ~Truthy(user_id)
           THEN /\ resp' = [Response("save-document", 400) EXCEPT
                                !.error = "id and userId are required"]
                /\ UNCHANGED dvars
           ELSE /\ documents' = PutItem(documents,
                                        DocumentKey(user_id, document_id),
                                        DocumentItem(body))
                /\ objects' = objects \cup {DocumentItem(body).s3Key}
                /\ resp' = [Response("save-document", 200) EXCEPT
                                !.userId = user_id, !.documentId = document_id]
HandleSaveDocument(body) ==
    LET document_id == Get(body, "id")
        user_id == Get(body, "userId")
    IN  /\ UNCHANGED <<users, profiles, now, registered, delivered>>
        /\ UNCHANGED <<cvars, svars, objects>>
        /\ IF ~Truthy(document_id) \/ ~Truthy(user_id)
           THEN /\ resp' = [Response("save-document", 400) EXCEPT
                                !.error = "id and userId are required"]
                /\ UNCHANGED documents
           ELSE /\ documents' = PutItem(documents,
                                        DocumentKey(user_id, document_id),
                                        DocumentItem(body))
                /\ resp' = [Response("save-document", 200) EXCEPT
                                !.userId = user_id, !.documentId = document_id]

\* --------------------------------------------------- handle_delete_document
\* the guarded delete_object call: what the handler goes on with
TryDeleteObjectMutant(s3_key, s3_ok) ==
    IF ~Truthy(s3_key) THEN "skipped"
    ELSE IF s3_ok THEN "deleted" ELSE "raised"
TryDeleteObject(s3_key, s3_ok) ==
    IF ~Truthy(s3_key) THEN "skipped"
    ELSE IF s3_ok THEN "deleted" ELSE "continuing"

HandleDeleteDocument(path, query, s3_ok) ==
    LET document_id == LastSegment(path)
        user_id == Get(query, "userId")
        key == DocumentKey(user_id, document_id)
        s3_key == documents[key].s3Key
        outcome == TryDeleteObject(s3_key, s3_ok)
    IN  /\ UNCHANGED <<users, profiles, now, registered, delivered>>
        /\ UNCHANGED <<cvars, svars>>
        /\ IF ~Truthy(document_id) \/ ~Truthy(user_id)
           THEN /\ resp' = [Response("delete-document", 400) EXCEPT
                                !.error = "documentId and userId are required"]
                /\ UNCHANGED dvars
           ELSE IF key \notin DOMAIN documents
           THEN /\ resp' = [Response("delete-document", 404) EXCEPT
                                !.userId = user_id, !.documentId = document_id,
                                !.error = "Document not found"]
                /\ UNCHANGED dvars
           ELSE IF outcome = "raised"
           THEN /\ resp' = [Response("delete-document", 500) EXCEPT
                                !.userId = user_id, !.documentId = document_id,
                                !.objectKey = s3_key, !.objectCall = "delete",
                                !.objectFailed = TRUE,
                                !.error = "Delete failed: <e>"]
                /\ UNCHANGED dvars
           ELSE /\ objects' = IF outcome = "deleted" THEN objects \ {s3_key}
                              ELSE objects
                /\ documents' = Without(documents, key)
                /\ resp' = [Response("delete-document", 200) EXCEPT
                                !.userId = user_id, !.documentId = document_id,
                                !.objectKey = IF outcome = "skipped" THEN None
                                              ELSE s3_key,
                                !.objectCall = IF outcome = "skipped" THEN "none"
                                               ELSE "delete",
                                !.objectFailed = (outcome = "continuing")]

\* ------------------------------------------------------ field-mapping cache
\* The cache answers every command once the connection is up; the expiry of
\* keys (REDIS_TTL on a mapping entry, 24 hours on a rate-limit counter) is
\* outside the span of a behaviour.  possibleMatches, which no request reads
\* back from the cache, is left out of the batch entries.
ConfidenceThreshold == 80
RateLimit == 100
SingleHeadroomMs == 5000
BatchHeadroomMs == 10000
MaxAiConfidence == 95
MaxBatchConfidence == 100

MappingKey(field_signature) == "field_mapping:" \o field_signature
UsageKey(field_signature) == "field_mapping_usage:" \o field_signature
RateLimitKey(user_id) == "field_mapping_rate_limit:" \o user_id

EmptyRedis == [k \in {} |-> 0]

\* redis_cli.incr(key): the value after the increment, a missing key counts
\* from 0
IncrMutant(store, key) == IF key \in DOMAIN store THEN store[key] ELSE 1
Incr(store, key) == IF key \in DOMAIN store THEN store[key] + 1 ELSE 1

Min(a, b) == IF a < b THEN a ELSE b
Max(a, b) == IF a > b THEN a ELSE b

Range(seq) == {seq[i] : i \in 1..Len(seq)}

\* One field-mapping request: the body, and what the environment answers
\* while it is served (get_redis_client(), sourceIp of the request context,
\* context.get_remaining_time_in_millis(), the completion service).
Request(body, redis_up, source_ip, remaining_ms, completion) ==
    [body |-> body, redisUp |-> redis_up, sourceIp |-> source_ip,
     remainingMs |-> remaining_ms, completion |-> completion]

NoCompletion == [kind |-> "error", matchedKey |-> None, confidence |-> 0]

\* invocations counts the calls of the request to the completion service
FmResponse(op, status, request) ==
    [op |-> op, status |-> status, request |-> request, matchedKey |-> None,
     confidence |-> 0, usageCount |-> 0, message |-> None, source |-> None,
     mappings |-> <<>>, invocations |-> 0]

\* history: signature -> the key and confidence last written for it, the
\* usage count its last lookup returned (0: never looked up), and the usage
\* count its last lookup since the last store call returned (0: none since)
EmptyStored ==
    [g \in {} |-> [matchedKey |-> "", confidence |-> 0, lastUsage |-> 0,
                   sinceStore |-> 0]]

Written(field_signature, matched_key, confidence) ==
    PutItem(stored, field_signature,
            [matchedKey |-> matched_key, confidence |-> confidence,
             lastUsage |-> IF field_signature \in DOMAIN stored
                           THEN stored[field_signature].lastUsage ELSE 0,
             sinceStore |-> 0])

\* --------------------------------------------- match_field_with_ai_backend
\* key.lower().strip().replace(' ', '').replace('_', '').replace('-', '') on
\* the keys the requests and the completion service carry
NormalizeKey(k) ==
    CASE k \in {"email", "Email"} -> "email"
      [] k \in {"first_name", "First Name"} -> "firstname"
      [] OTHER -> k

\* the function returns None
NoMatch == [matchedKey |-> None, confidence |-> 0]

MatchFieldWithAiBackendMutant(available_keys, completion) ==
    IF completion.kind # "json" \/ ~Truthy(completion.matchedKey) THEN NoMatch
    ELSE [matchedKey |-> completion.matchedKey,
          confidence |-> Max(0, Min(MaxAiConfidence, completion.confidence))]

MatchFieldWithAiBackend(available_keys, completion) ==
    LET matched_key == completion.matchedKey
        confidence == Max(0, Min(MaxAiConfidence, completion.confidence))
        same == {i \in 1..Len(available_keys) :
                    NormalizeKey(available_keys[i]) = NormalizeKey(matched_key)}
    IN  IF completion.kind # "json" \/ ~Truthy(matched_key) THEN NoMatch
        ELSE IF matched_key \in Range(available_keys)
        THEN [matchedKey |-> matched_key, confidence |-> confidence]
        ELSE IF same # {}
        THEN [matchedKey |-> available_keys[CHOOSE i \in same :
                                               \A j \in same : i <= j],
              confidence |-> confidence]
        ELSE NoMatch

\* the check of the remaining execution time before the completion service
\* is called
InsufficientTimeMutant(remaining_ms, headroom_ms) == remaining_ms < headroom_ms - 1
InsufficientTime(remaining_ms, headroom_ms) == remaining_ms < headroom_ms

\* ------------------------------------------------- handle_get_field_mapping
HandleGetFieldMapping(request) ==
    LET body == request.body
        field_signature == Get(body, "fieldSignature")
        key == MappingKey(field_signature)
        usage_key == UsageKey(field_signature)
        timestamp == now + 1
        available_keys == GetOr(body, "availableKeys", <<>>)
        ai_match == MatchFieldWithAiBackend(available_keys, request.completion)
        usage_count == Incr(redis, usage_key)
    IN  /\ now < MaxRequests
        /\ now' = timestamp
        /\ UNCHANGED <<users, profiles, registered, delivered, dvars, svars>>
        /\ IF ~Truthy(field_signature)
           THEN /\ resp' = FmResponse("get", 400, request)
                /\ UNCHANGED cvars
           ELSE IF ~request.redisUp
           THEN /\ resp' = FmResponse("get", 503, request)
                /\ UNCHANGED cvars
           ELSE IF key \notin DOMAIN redis
           THEN IF /\ Truthy(Get(body, "fieldLabel"))
                   /\ available_keys # <<>>
                   /\ Truthy(Get(body, "openAIKey"))
                THEN IF InsufficientTime(request.remainingMs, SingleHeadroomMs)
                     THEN /\ resp' = FmResponse("get", 504, request)
                          /\ UNCHANGED cvars
                     ELSE IF Truthy(ai_match.matchedKey)
                     THEN /\ redis' = PutItem(redis, key,
                                [matchedKey |-> ai_match.matchedKey,
                                 confidence |-> ai_match.confidence,
                                 usageCount |-> 0,
                                 createdAt |-> timestamp,
                                 updatedAt |-> timestamp,
                                 fieldLabel |-> Get(body, "fieldLabel"),
                                 fieldName |-> GetOr(body, "fieldName", ""),
                                 source |-> "ai"])
                          /\ resp' = [FmResponse("get", 200, request) EXCEPT
                                          !.matchedKey = ai_match.matchedKey,
                                          !.confidence = ai_match.confidence,
                                          !.source = "ai",
                                          !.invocations = 1]
                          /\ stored' = Written(field_signature,
                                               ai_match.matchedKey,
                                               ai_match.confidence)
                     ELSE /\ resp' = [FmResponse("get", 404, request) EXCEPT
                                          !.invocations = 1]
                          /\ UNCHANGED cvars
                ELSE /\ resp' = FmResponse("get", 404, request)
                     /\ UNCHANGED cvars
           ELSE /\ redis' = PutItem(PutItem(redis, usage_key, usage_count), key,
                                [redis[key] EXCEPT !.usageCount = usage_count,
                                                   !.updatedAt = timestamp])
                /\ resp' = [FmResponse("get", 200, request) EXCEPT
                                !.matchedKey = redis[key].matchedKey,
                                !.confidence = redis[key].confidence,
                                !.usageCount = usage_count]
                /\ stored' = [stored EXCEPT
                                ![field_signature].lastUsage = usage_count,
                                ![field_signature].sinceStore = usage_count]

\* ------------------------------------------------ handle_post_field_mapping
IsLowConfidenceMutant(confidence) == confidence < ConfidenceThreshold - 1
IsLowConfidence(confidence) == confidence < ConfidenceThreshold

UpdatedEntryMutant(existing_data, body, store, timestamp) ==
    LET usage_key == UsageKey(body.fieldSignature)
    IN  [existing_data EXCEPT
            !.updatedAt = timestamp,
            !.usageCount = IF usage_key \in DOMAIN store THEN store[usage_key]
                           ELSE existing_data.usageCount]
\* the entry the store call writes over an existing one
UpdatedEntry(existing_data, body, store, timestamp) ==
    LET usage_key == UsageKey(body.fieldSignature)
    IN  [existing_data EXCEPT
            !.matchedKey = body.matchedKey,
            !.confidence = GetOr(body, "confidence", 0),
            !.updatedAt = timestamp,
            !.fieldLabel = GetOr(body, "fieldLabel", ""),
            !.fieldName = GetOr(body, "fieldName", ""),
            !.usageCount = IF usage_key \in DOMAIN store THEN store[usage_key]
                           ELSE existing_data.usageCount]

\* a mapping created by the store call carries no origin flag
NewEntry(matched_key, confidence, field_label, field_name, timestamp) ==
    [matchedKey |-> matched_key, confidence |-> confidence, usageCount |-> 0,
     createdAt |-> timestamp, updatedAt |-> timestamp,
     fieldLabel |-> field_label, fieldName |-> field_name, source |-> None]

\* the counter is over the daily cap
RateLimitExceededMutant(daily_writes) == daily_writes > RateLimit + 1
RateLimitExceeded(daily_writes) == daily_writes > RateLimit

HandlePostFieldMapping(request) ==
    LET body == request.body
        field_signature == Get(body, "fieldSignature")
        matched_key == Get(body, "matchedKey")
        confidence == GetOr(body, "confidence", 0)
        field_label == GetOr(body, "fieldLabel", "")
        field_name == GetOr(body, "fieldName", "")
        timestamp == now + 1
        user_id == IF request.sourceIp = None THEN "unknown"
                   ELSE request.sourceIp
        rate_limit_key == RateLimitKey(user_id)
        daily_writes == Incr(redis, rate_limit_key)
        counted == PutItem(redis, rate_limit_key, daily_writes)
        key == MappingKey(field_signature)
    IN  /\ now < MaxRequests
        /\ now' = timestamp
        /\ UNCHANGED <<users, profiles, registered, delivered, dvars, svars>>
        /\ IF ~request.redisUp
           THEN /\ resp' = FmResponse("store", 503, request)
                /\ UNCHANGED cvars
           ELSE IF ~Truthy(field_signature) \/ ~Truthy(matched_key)
           THEN /\ resp' = FmResponse("store", 400, request)
                /\ UNCHANGED cvars
           ELSE IF IsLowConfidence(confidence)
           THEN /\ resp' = [FmResponse("store", 200, request) EXCEPT
                                !.message = "Low confidence match not stored"]
                /\ UNCHANGED cvars
           ELSE IF RateLimitExceeded(daily_writes)
           THEN /\ redis' = counted
                /\ resp' = FmResponse("store", 429, request)
                /\ UNCHANGED stored
           ELSE /\ redis' = PutItem(counted, key,
                                IF key \in DOMAIN redis
                                THEN UpdatedEntry(redis[key], body, redis,
                                                  timestamp)
                                ELSE NewEntry(matched_key, confidence,
                                              field_label, field_name,
                                              timestamp))
                /\ resp' = [FmResponse("store", 200, request) EXCEPT
                                !.message = "Mapping stored"]
                /\ stored' = Written(field_signature, matched_key, confidence)

\* ------------------------------- handle_post_field_mapping, command by command
\* Store calls that run side by side: each caller is at one cache command of
\* the handler, and a step is that command together with the local code up to
\* the next one.  The cache serves one command at a time.
NoCall(request) ==
    [pc |-> "incr", request |-> request, dailyWrites |-> 0, found |-> FALSE,
     entry |-> NewEntry("", 0, "", "", 0), status |-> 0, wrote |-> FALSE]

Returned(call, status) == [call EXCEPT !.pc = "done", !.status = status]

\* from the entry of the handler to the answer of INCR and the checks on it
\* (EXPIRE, sent for a counter at 1, changes no value)
StoreIncr(p, request) ==
    LET body == request.body
        call == NoCall(request)
        user_id == IF request.sourceIp = None THEN "unknown"
                   ELSE request.sourceIp
        rate_limit_key == RateLimitKey(user_id)
        daily_writes == Incr(redis, rate_limit_key)
    IN  /\ p \notin DOMAIN calls
        /\ UNCHANGED <<pvars, dvars, stored, writes>>
        /\ IF ~request.redisUp
           THEN /\ calls' = PutItem(calls, p, Returned(call, 503))
                /\ UNCHANGED redis
           ELSE IF \/ ~Truthy(Get(body, "fieldSignature"))
                   \/ ~Truthy(Get(body, "matchedKey"))
           THEN /\ calls' = PutItem(calls, p, Returned(call, 400))
                /\ UNCHANGED redis
           ELSE IF IsLowConfidence(GetOr(body, "confidence", 0))
           THEN /\ calls' = PutItem(calls, p, Returned(call, 200))
                /\ UNCHANGED redis
           ELSE /\ redis' = PutItem(redis, rate_limit_key, daily_writes)
                /\ calls' = PutItem(calls, p,
                     IF RateLimitExceeded(daily_writes)
                     THEN [Returned(call, 429) EXCEPT
                              !.dailyWrites = daily_writes]
                     ELSE [call EXCEPT !.pc = "get",
                                       !.dailyWrites = daily_writes])

\* existing = redis_cli.get(key)
StoreGet(p) ==
    LET call == calls[p]
        body == call.request.body
        key == MappingKey(body.fieldSignature)
    IN  /\ p \in DOMAIN calls /\ calls[p].pc = "get"
        /\ UNCHANGED <<pvars, dvars, cvars, writes>>
        /\ calls' = [calls EXCEPT ![p] =
              IF key \in DOMAIN redis
              THEN [call EXCEPT !.pc = "usage", !.found = TRUE,
                                !.entry = redis[key]]
              ELSE [call EXCEPT !.pc = "set",
                                !.entry = NewEntry(body.matchedKey,
                                                   GetOr(body, "confidence", 0),
                                                   GetOr(body, "fieldLabel", ""),
                                                   GetOr(body, "fieldName", ""),
                                                   now)]]

\* usage_count = redis_cli.get(usage_key), after the fields were replaced
StoreUsage(p) ==
    LET call == calls[p]
    IN  /\ p \in DOMAIN calls /\ calls[p].pc = "usage"
        /\ UNCHANGED <<pvars, dvars, cvars, writes>>
        /\ calls' = [calls EXCEPT ![p] =
              [call EXCEPT !.pc = "set",
                           !.entry = UpdatedEntry(call.entry, call.request.body,
                                                  redis, now)]]

\* redis_cli.set(key, ...) and the answer
StoreSet(p) ==
    LET call == calls[p]
        body == call.request.body
        user_id == IF call.request.sourceIp = None THEN "unknown"
                   ELSE call.request.sourceIp
    IN  /\ p \in DOMAIN calls /\ calls[p].pc = "set"
        /\ UNCHANGED <<pvars, dvars>>
        /\ redis' = PutItem(redis, MappingKey(body.fieldSignature), call.entry)
        /\ stored' = Written(body.fieldSignature, body.matchedKey,
                             GetOr(body, "confidence", 0))
        /\ writes' = PutItem(writes, user_id, GetOr(writes, user_id, 0) + 1)
        /\ calls' = [calls EXCEPT ![p] = [Returned(call, 200) EXCEPT
                                             !.wrote = TRUE]]

\* -------------------------------- handle_get_field_mapping, command by command
\* Lookups that run side by side with each other and with store calls, each
\* at one cache command of its handler.
\* from the entry of the handler to the answer of GET and, on a miss, of the
\* completion service
LookupGet(p, request) ==
    LET body == request.body
        call == [NoCall(request) EXCEPT !.pc = "done"]
        field_signature == Get(body, "fieldSignature")
        key == MappingKey(field_signature)
        available_keys == GetOr(body, "availableKeys", <<>>)
        ai_match == MatchFieldWithAiBackend(available_keys, request.completion)
    IN  /\ p \notin DOMAIN calls
        /\ UNCHANGED <<pvars, dvars, cvars, writes>>
        /\ calls' = PutItem(calls, p,
              IF ~Truthy(field_signature) THEN Returned(call, 400)
              ELSE IF ~request.redisUp THEN Returned(call, 503)
              ELSE IF key \in DOMAIN redis
              THEN [call EXCEPT !.pc = "lookup_incr", !.found = TRUE,
                                !.entry = redis[key]]
              ELSE IF ~(/\ Truthy(Get(body, "fieldLabel"))
                        /\ available_keys # <<>>
                        /\ Truthy(Get(body, "openAIKey")))
              THEN Returned(call, 404)
              ELSE IF InsufficientTime(request.remainingMs, SingleHeadroomMs)
              THEN Returned(call, 504)
              ELSE IF ~Truthy(ai_match.matchedKey) THEN Returned(call, 404)
              ELSE [call EXCEPT
                       !.pc = "lookup_set",
                       !.entry = [matchedKey |-> ai_match.matchedKey,
                                  confidence |-> ai_match.confidence,
                                  usageCount |-> 0,
                                  createdAt |-> now, updatedAt |-> now,
                                  fieldLabel |-> Get(body, "fieldLabel"),
                                  fieldName |-> GetOr(body, "fieldName", ""),
                                  source |-> "ai"]])

\* usage_count = redis_cli.incr(usage_key), put into the entry that was read
LookupIncr(p) ==
    LET call == calls[p]
        usage_key == UsageKey(call.request.body.fieldSignature)
        usage_count == Incr(redis, usage_key)
    IN  /\ p \in DOMAIN calls /\ calls[p].pc = "lookup_incr"
        /\ UNCHANGED <<pvars, dvars, stored, writes>>
        /\ redis' = PutItem(redis, usage_key, usage_count)
        /\ calls' = [calls EXCEPT ![p] =
              [call EXCEPT !.pc = "lookup_set",
                           !.entry = [call.entry EXCEPT
                                         !.usageCount = usage_count,
                                         !.updatedAt = now]]]

\* redis_cli.set(key, json.dumps(mapping_data)) and the answer
LookupSet(p) ==
    LET call == calls[p]
    IN  /\ p \in DOMAIN calls /\ calls[p].pc = "lookup_set"
        /\ UNCHANGED <<pvars, dvars, stored, writes>>
        /\ redis' = PutItem(redis, MappingKey(call.request.body.fieldSignature),
                            call.entry)
        /\ calls' = [calls EXCEPT ![p] = [Returned(call, 200) EXCEPT
                                             !.wrote = TRUE]]

\* -------------------------------------------- POST /api/field-mapping route
FieldMappingRoute(request) ==
    IF /\ GetOr(request.body, "action", "get") = "store"
       /\ Truthy(Get(request.body, "matchedKey"))
    THEN HandlePostFieldMapping(request)
    ELSE HandleGetFieldMapping(request)

\* ------------------------------------- generate_field_signature_from_dict
\* str(abs(hash))[:8] of "label|name|placeholder|ariaLabel", lower-cased, for
\* the fields the batch requests carry
GenerateFieldSignatureFromDict(field) ==
    CASE /\ GetOr(field, "label", "") \in {"Email", "EMAIL"}
         /\ GetOr(field, "name", "") \in {"email", "Email"} -> "82405840"
      [] /\ GetOr(field, "label", "") = "First Name"
         /\ GetOr(field, "name", "") = "first" -> "23792562"
      [] OTHER -> "123132"

\* ------------------------------------------------ match_fields_batch_backend
NullMapping(i) == [fieldIndex |-> i, matchedKey |-> None, confidence |-> 0]

\* one pass of the validation loop: the entry appended for a returned
\* mapping, nothing for an index out of range
ValidatedMapping(mapping, fields, available_keys) ==
    LET matched_key == Get(mapping, "matchedKey")
        confidence == GetOr(mapping, "confidence", 0)
    IN  IF \/ "fieldIndex" \notin DOMAIN mapping
           \/ mapping.fieldIndex < 0
           \/ mapping.fieldIndex >= Len(fields)
        THEN <<>>
        ELSE IF Truthy(matched_key) /\ matched_key \in Range(available_keys)
        THEN <<[fieldIndex |-> mapping.fieldIndex, matchedKey |-> matched_key,
                confidence |-> Min(Max(confidence, 0), MaxBatchConfidence)]>>
        ELSE IF confidence > 0
        THEN <<[fieldIndex |-> mapping.fieldIndex, matchedKey |-> None,
                confidence |-> Min(Max(confidence, 0), MaxBatchConfidence)]>>
        ELSE <<NullMapping(mapping.fieldIndex)>>

RECURSIVE ValidatedMappings(_, _, _)
ValidatedMappings(mappings, fields, available_keys) ==
    IF mappings = <<>> THEN <<>>
    ELSE ValidatedMapping(Head(mappings), fields, available_keys)
         \o ValidatedMappings(Tail(mappings), fields, available_keys)

\* the entries appended for the indices i..n-1 the response does not hold
RECURSIVE MissingMappings(_, _, _)
MissingMappings(validated, i, n) ==
    IF i >= n THEN <<>>
    ELSE (IF \E j \in 1..Len(validated) : validated[j].fieldIndex = i
          THEN <<>> ELSE <<NullMapping(i)>>)
         \o MissingMappings(validated, i + 1, n)

\* list.sort(key=fieldIndex): stable
RECURSIVE SortByFieldIndex(_)
SortByFieldIndex(ms) ==
    IF ms = <<>> THEN <<>>
    ELSE LET rest == SortByFieldIndex(Tail(ms))
             before == SelectSeq(rest, LAMBDA m : m.fieldIndex < Head(ms).fieldIndex)
             after == SelectSeq(rest, LAMBDA m : m.fieldIndex >= Head(ms).fieldIndex)
         IN  before \o <<Head(ms)>> \o after

MatchFieldsBatchBackend(fields, available_keys, completion) ==
    IF completion.kind # "json" THEN <<>>
    ELSE LET validated == ValidatedMappings(completion.mappings, fields,
                                            available_keys)
         IN  SortByFieldIndex(validated
                              \o MissingMappings(validated, 0, Len(fields)))

\* the cache writes that follow the sort, one per entry with a matched key
RECURSIVE CacheMappings(_, _, _, _)
CacheMappings(store, validated, fields, timestamp) ==
    IF validated = <<>> THEN store
    ELSE LET mapping == Head(validated)
             field == fields[mapping.fieldIndex + 1]
             key == MappingKey(GenerateFieldSignatureFromDict(field))
             next == IF Truthy(mapping.matchedKey)
                     THEN PutItem(store, key,
                              [matchedKey |-> mapping.matchedKey,
                               confidence |-> mapping.confidence,
                               usageCount |-> 0,
                               createdAt |-> timestamp,
                               updatedAt |-> timestamp,
                               fieldLabel |-> GetOr(field, "label", ""),
                               fieldName |-> GetOr(field, "name", ""),
                               source |-> "ai"])
                     ELSE store
         IN  CacheMappings(next, Tail(validated), fields, timestamp)

RECURSIVE BatchWritten(_, _, _)
BatchWritten(hist, validated, fields) ==
    IF validated = <<>> THEN hist
    ELSE LET mapping == Head(validated)
             g == GenerateFieldSignatureFromDict(fields[mapping.fieldIndex + 1])
             next == IF Truthy(mapping.matchedKey)
                     THEN PutItem(hist, g,
                              [matchedKey |-> mapping.matchedKey,
                               confidence |-> mapping.confidence,
                               lastUsage |-> IF g \in DOMAIN hist
                                             THEN hist[g].lastUsage ELSE 0,
                               sinceStore |-> 0])
                     ELSE hist
         IN  BatchWritten(next, Tail(validated), fields)

\* ----------------------------------------------- handle_batch_field_mapping
HandleBatchFieldMapping(request) ==
    LET body == request.body
        fields == GetOr(body, "fields", <<>>)
        available_keys == GetOr(body, "availableKeys", <<>>)
        openai_key == GetOr(body, "openAIKey", "")
        timestamp == now + 1
        batch_result == MatchFieldsBatchBackend(fields, available_keys,
                                                request.completion)
    IN  /\ now < MaxBatches
        /\ now' = timestamp
        /\ UNCHANGED <<users, profiles, registered, delivered, dvars, svars>>
        /\ IF fields = <<>> \/ available_keys = <<>> \/ ~Truthy(openai_key)
           THEN /\ resp' = FmResponse("batch", 400, request)
                /\ UNCHANGED cvars
           ELSE IF InsufficientTime(request.remainingMs, BatchHeadroomMs)
           THEN /\ resp' = FmResponse("batch", 504, request)
                /\ UNCHANGED cvars
           ELSE /\ resp' = [FmResponse("batch", 200, request) EXCEPT
                                !.mappings = batch_result,
                                !.invocations = 1]
                /\ IF request.redisUp
                   THEN /\ redis' = CacheMappings(redis, batch_result, fields,
                                                  timestamp)
                        /\ stored' = BatchWritten(stored, batch_result, fields)
                   ELSE UNCHANGED cvars

\* ------------------------------------------------------ read-only handlers
\* The handlers that only read: their status, and no store changed.
Answer(op, status) ==
    /\ resp' = Response(op, status)
    /\ UNCHANGED <<users, profiles, now, registered, delivered>>
    /\ UNCHANGED <<cvars, dvars, svars>>

HandleGetUserData(query) ==
    LET user_id == Get(query, "userId")
    IN  Answer("get-user-data",
               IF ~Truthy(user_id) THEN 400
               ELSE IF user_id \notin DOMAIN users THEN 404 ELSE 200)

HandleGetProfiles(query) ==
    Answer("get-profiles", IF ~Truthy(Get(query, "userId")) THEN 400 ELSE 200)

HandleSync(query) ==
    Answer("sync", IF ~Truthy(Get(query, "userId")) THEN 400 ELSE 200)

HandleGetDocuments(query) ==
    Answer("get-documents", IF ~Truthy(Get(query, "userId")) THEN 400 ELSE 200)

HandleGetPresignedUrl(query) ==
    Answer("presigned-url", IF ~Truthy(Get(query, "s3Key")) THEN 400 ELSE 200)

HandleGetDocument(path, query) ==
    LET document_id == LastSegment(path)
        user_id == Get(query, "userId")
    IN  Answer("get-document",
               IF ~Truthy(document_id) \/ ~Truthy(user_id) THEN 400
               ELSE IF DocumentKey(user_id, document_id) \notin DOMAIN documents
               THEN 404 ELSE 200)

HealthCheck == Answer("health", 200)

\* ----------------------------------------------------------- lambda_handler
\* str.startswith and the slice path[n:]
StartsWith(path, prefix) ==
    /\ Len(path) >= Len(prefix)
    /\ SubSeq(path, 1, Len(prefix)) = prefix

Drop(path, n) == SubSeq(path, n + 1, Len(path))

RECURSIVE Path(_)
Path(segments) ==
    IF segments = <<>> THEN <<>>
    ELSE <<"/", Head(segments)>> \o Path(Tail(segments))

\* the stage is removed by a slice of a fixed length
StripStage(raw_path) ==
    IF StartsWith(raw_path, <<"/", "P", "r", "o", "d", "/">>)
    THEN Drop(raw_path, 5)
    ELSE IF StartsWith(raw_path, <<"/", "S", "t", "a", "g", "e", "/">>)
    THEN Drop(raw_path, 7)
    ELSE IF StartsWith(raw_path, <<"/", "D", "e", "v", "/">>)
    THEN Drop(raw_path, 5)
    ELSE raw_path

\* the name of the function a method and a stage-free path are routed to
Dispatch(http_method, path) ==
    LET documents_prefix == <<"/", "api", "/", "documents">> \o <<"/">>
    IN  IF path = <<"/", "api", "/", "user", "/", "register">> /\ http_method = "POST"
        THEN "handle_user_register"
        ELSE IF path = <<"/", "api", "/", "user", "/", "data">> /\ http_method = "POST"
        THEN "handle_store_employee_data"
        ELSE IF path = <<"/", "api", "/", "user", "/", "data">> /\ http_method = "GET"
        THEN "handle_get_user_data"
        ELSE IF path = <<"/", "api", "/", "profiles">> /\ http_method = "GET"
        THEN "handle_get_profiles"
        ELSE IF path = <<"/", "api", "/", "profiles">> /\ http_method = "POST"
        THEN "handle_create_profile"
        ELSE IF path = <<"/", "api", "/", "profiles">> /\ http_method = "PUT"
        THEN "handle_update_profile"
        ELSE IF path = <<"/", "api", "/", "sync">> /\ http_method = "GET"
        THEN "handle_sync"
        ELSE IF path = <<"/", "api", "/", "webhook">> /\ http_method = "POST"
        THEN "handle_zapier_webhook"
        ELSE IF /\ path = <<"/", "api", "/", "user", "/", "register-by-email">>
                /\ http_method = "POST"
        THEN "handle_email_registration"
        ELSE IF path = <<"/", "api", "/", "field-mapping">> /\ http_method = "POST"
        THEN "field_mapping"
        ELSE IF /\ path = <<"/", "api", "/", "batch-field-mapping">>
                /\ http_method = "POST"
        THEN "handle_batch_field_mapping"
        ELSE IF /\ path = <<"/", "api", "/", "documents", "/", "upload">>
                /\ http_method = "POST"
        THEN "handle_document_upload"
        ELSE IF path = <<"/", "api", "/", "documents">> /\ http_method = "POST"
        THEN "handle_save_document"
        ELSE IF path = <<"/", "api", "/", "documents">> /\ http_method = "GET"
        THEN "handle_get_documents"
        ELSE IF StartsWith(path, documents_prefix) /\ http_method = "GET"
        THEN IF LastSegment(path) = "presigned-url"
             THEN "handle_get_presigned_url" ELSE "handle_get_document"
        ELSE IF StartsWith(path, documents_prefix) /\ http_method = "DELETE"
        THEN "handle_delete_document"
        ELSE IF path = <<"/", "health">>
        THEN "health_check"
        ELSE "not_found"

\* One request through the entry point: the preflight answer, or the handler
\* the route names, run on the event.  env holds what the surroundings answer
\* during the request.
LambdaHandler(event) ==
    LET http_method == event.httpMethod
        raw_path == event.path
        body == event.body
        query == event.queryStringParameters
        env == event.env
        single == Request(body, env.redisUp, env.sourceIp, env.remainingMs,
                          env.completion)
        batch == Request(body, env.redisUp, env.sourceIp, env.remainingMs,
                         env.batchCompletion)
    IN  \E route \in {IF http_method = "OPTIONS" THEN "options"
                      ELSE Dispatch(http_method, StripStage(raw_path))} :
        /\ routed' = [httpMethod |-> http_method, path |-> raw_path,
                      handler |-> route]
        /\ CASE route = "options" -> Answer("options", 200)
             [] route = "handle_user_register" -> HandleUserRegister(body)
             [] route = "handle_store_employee_data" ->
                    HandleStoreEmployeeData(body)
             [] route = "handle_get_user_data" -> HandleGetUserData(query)
             [] route = "handle_get_profiles" -> HandleGetProfiles(query)
             [] route \in {"handle_create_profile", "handle_update_profile"} ->
                    HandleCreateProfile(body)
             [] route = "handle_sync" -> HandleSync(query)
             [] route = "handle_zapier_webhook" ->
                    HandleZapierWebhook(body, event.headers)
             [] route = "handle_email_registration" ->
                    HandleEmailRegistration(body)
             [] route = "field_mapping" -> FieldMappingRoute(single)
             [] route = "handle_batch_field_mapping" ->
                    HandleBatchFieldMapping(batch)
             [] route = "handle_document_upload" ->
                    HandleDocumentUpload(body, env.nonce, env.s3Ok)
             [] route = "handle_save_document" -> HandleSaveDocument(body)
             [] route = "handle_get_documents" -> HandleGetDocuments(query)
             [] route = "handle_get_presigned_url" ->
                    HandleGetPresignedUrl(query)
             [] route = "handle_get_document" ->
                    HandleGetDocument(raw_path, query)
             [] route = "handle_delete_document" ->
                    HandleDeleteDocument(raw_path, query, env.s3Ok)
             [] route = "health_check" -> HealthCheck
             [] OTHER -> Answer("not-found", 404)

\* ---------------------------------------------------------- specifications
PInit ==
    /\ users = [u \in {} |-> [email |-> "", createdAt |-> 0]]
    /\ profiles = [q \in {} |-> DefaultProfileItem("", 0)]
    /\ now = 0
    /\ resp = NoResp
    /\ registered = [u \in {} |-> 0]
    /\ delivered = [q \in {} |-> [owner |-> "", bodies |-> <<>>]]

CInit ==
    /\ redis = EmptyRedis
    /\ stored = EmptyStored

DInit ==
    /\ documents = [k \in {} |-> [s3Key |-> ""]]
    /\ objects = {}

SInit ==
    /\ calls = [p \in {} |-> NoCall(EmptyDict)]
    /\ writes = [a \in {} |-> 0]
    /\ routed = [httpMethod |-> None, path |-> <<>>, handler |-> None]

Init == PInit /\ CInit /\ DInit /\ SInit

Event(body, headers) == [body |-> body, headers |-> headers]

\* Identity workload: sign-ins, e-mail registrations and deliveries that differ
\* in how they name their user.
\* E-mail addresses are unique by convention: u1 signs in as a@x, u2 as b@x.
IdRegisterBodies ==
    {[userId |-> "u1", email |-> e] : e \in {"A@X", " a@x "}}
    \cup {[userId |-> "u2", email |-> e] : e \in {"b@x", "B@X"}}
    \cup {[userId |-> "u1", email |-> " "], [email |-> "a@x"]}

IdEmailBodies == {[userId |-> "u2", email |-> "B@X"], [userId |-> "u2"]}

IdEvents ==
    {Event(b, EmptyDict) :
        b \in {[email |-> "a@x", department |-> "eng"],
               [email |-> "A@X", department |-> "eng"],
               [email |-> "B@X", department |-> "eng"],
               [userId |-> "u1", email |-> "b@x", department |-> "eng"],
               [googleAccountEmail |-> "b@x", department |-> "eng"],
               [department |-> "eng"],
               EmptyDict}}
    \cup {Event([department |-> "eng"], [k \in {"X-Zapier-User-Email"} |-> "b@x"])}

IdRegister ==
    /\ \E body \in IdRegisterBodies : HandleUserRegister(body)
    /\ UNCHANGED routed
IdRegisterByEmail ==
    /\ \E body \in IdEmailBodies : HandleEmailRegistration(body)
    /\ UNCHANGED routed
IdWebhook ==
    /\ \E ev \in IdEvents : HandleZapierWebhook(ev.body, ev.headers)
    /\ UNCHANGED routed

IdNext == IdRegister \/ IdRegisterByEmail \/ IdWebhook

SpecIdentity == Init /\ [][IdNext]_vars

\* Ingestion workload: deliveries that name their user directly and differ in
\* routing and data, next to direct profile writes on overlapping ids.
InEvents ==
    {Event(b, EmptyDict) :
        b \in {[userId |-> "u1", spreadsheetId |-> "s1", department |-> "eng"],
               [userId |-> "u1", spreadsheetId |-> "s1", department |-> "ops"],
               [userId |-> "u1", spreadsheetId |-> "s1", rowNumber |-> "7"],
               [userId |-> "u2", spreadsheetId |-> "s1", department |-> "eng"],
               [userId |-> "u1", department |-> "eng"],
               [userId |-> "u1", department |-> "ops"],
               [userId |-> "u1", employeeId |-> "e1", department |-> "eng"],
               [userId |-> "u1", employeeId |-> "e2", department |-> "ops"],
               [userId |-> "u1", employeeId |-> "e1", rowNumber |-> "7"],
               [userId |-> "u1", employeeId |-> "e1", sheetName |-> "staff"],
               [userId |-> "u1", employeeId |-> "e1", source |-> "Sheets"],
               [userId |-> "u1", employeeId |-> "e1", col_a |-> "eng"]}}
    \cup {Event(b, [k \in {"X-Zapier-Zap-Id"} |-> "z1"]) :
            b \in {[userId |-> "u1", department |-> "eng"],
                   [userId |-> "u1", spreadsheetId |-> "s1", department |-> "eng"],
                   [userId |-> "u1", sheetName |-> "staff"]}}

InProfileBodies ==
    {[userId |-> "u1", profileId |-> "work", sourceId |-> "crm_u1"],
     [userId |-> "u1", profileId |-> "googlesheets_s1",
      fields |-> [rowsKind |-> "absent", rows |-> <<>>,
                  flat |-> [department |-> "hr"]]],
     [userId |-> "u1"],
     [profileId |-> "work"]}

InEmployeeBodies ==
    {[userId |-> "u1", employeeId |-> "u1", department |-> "eng"],
     [employeeId |-> "e1"]}

InWebhook ==
    /\ \E ev \in InEvents : HandleZapierWebhook(ev.body, ev.headers)
    /\ UNCHANGED routed
InCreateProfile ==
    /\ \E body \in InProfileBodies : HandleCreateProfile(body)
    /\ UNCHANGED routed
InStoreEmployeeData ==
    /\ \E body \in InEmployeeBodies : HandleStoreEmployeeData(body)
    /\ UNCHANGED routed

InNext == InWebhook \/ InCreateProfile \/ InStoreEmployeeData

SpecIngest == Init /\ [][InNext]_vars

\* Field-mapping workload: lookups and store calls on two signatures, from an
\* empty cache and from the cache after 100 store calls of one caller for one
\* signature (that caller's counter is at the daily cap).
SeededRedis ==
    [k \in {MappingKey("s1"), RateLimitKey("ip1")} |->
        IF k = RateLimitKey("ip1") THEN RateLimit
        ELSE NewEntry("email", ConfidenceThreshold, "", "", 0)]
SeededStored == PutItem(EmptyStored, "s1",
                        [matchedKey |-> "email",
                         confidence |-> ConfidenceThreshold,
                         lastUsage |-> 0, sinceStore |-> 0])

CaInit ==
    /\ PInit /\ DInit /\ SInit
    /\ \/ CInit
       \/ redis = SeededRedis /\ stored = SeededStored

CaAiBody ==
    [fieldSignature |-> "s2", fieldLabel |-> "First Name",
     availableKeys |-> <<"email", "first_name">>, openAIKey |-> "sk"]

CaAiCompletions ==
    {NoCompletion,
     [kind |-> "json", matchedKey |-> None, confidence |-> 0],
     [kind |-> "json", matchedKey |-> "first_name", confidence |-> 120],
     [kind |-> "json", matchedKey |-> "First Name", confidence |-> 70],
     [kind |-> "json", matchedKey |-> "bogus", confidence |-> 70]}

CaLookups ==
    {Request(b, up, None, SingleHeadroomMs, NoCompletion) :
        b \in {[fieldSignature |-> "s1"], [fieldSignature |-> "s2"]},
        up \in BOOLEAN}
    \cup {Request(EmptyDict, TRUE, None, SingleHeadroomMs, NoCompletion),
          Request([action |-> "store", fieldSignature |-> "s1",
                   confidence |-> 95],
                  TRUE, None, SingleHeadroomMs, NoCompletion),
          Request(CaAiBody, TRUE, None, SingleHeadroomMs - 1, NoCompletion)}
    \cup {Request(CaAiBody, TRUE, None, SingleHeadroomMs, c) :
            c \in CaAiCompletions}

CaStores ==
    {Request([action |-> "store", fieldSignature |-> g, matchedKey |-> k,
              confidence |-> c],
             up, "ip1", 0, NoCompletion) :
        g \in {"s1", "s2"}, k \in {"email", "first_name"},
        c \in {ConfidenceThreshold - 1, ConfidenceThreshold, 95},
        up \in BOOLEAN}
    \cup {Request([action |-> "store", fieldSignature |-> "s1",
                   matchedKey |-> "email"], TRUE, "ip1", 0, NoCompletion),
          Request([action |-> "store", matchedKey |-> "email",
                   confidence |-> 95], TRUE, "ip1", 0, NoCompletion),
          Request([action |-> "store", fieldSignature |-> "s1",
                   matchedKey |-> "first_name", confidence |-> 95],
                  TRUE, None, 0, NoCompletion)}

CaLookup ==
    /\ \E request \in CaLookups : FieldMappingRoute(request)
    /\ UNCHANGED routed
CaStore ==
    /\ \E request \in CaStores : FieldMappingRoute(request)
    /\ UNCHANGED routed

CaNext == CaLookup \/ CaStore

SpecCache == CaInit /\ [][CaNext]_vars

\* Batch workload: batch requests of one or two fields, and every mappings
\* list of at most MaxMappings entries the completion service can answer with.
BaFields ==
    <<[index |-> 0, label |-> "Email", name |-> "email"],
      [index |-> 1, label |-> "First Name", name |-> "first"]>>

BaBodies ==
    {[fields |-> SubSeq(BaFields, 1, n),
      availableKeys |-> <<"email", "first_name">>, openAIKey |-> "sk"] :
        n \in 1..2}

BaMappings ==
    {[fieldIndex |-> 0, matchedKey |-> "email", confidence |-> 150],
     [fieldIndex |-> 0, matchedKey |-> None, confidence |-> 0],
     [fieldIndex |-> 1, matchedKey |-> "bogus", confidence |-> 60],
     [fieldIndex |-> 1, matchedKey |-> "first_name", confidence |-> 60],
     [fieldIndex |-> -1, matchedKey |-> "email", confidence |-> 60],
     [matchedKey |-> "email", confidence |-> 60]}

BaCompletions ==
    {[kind |-> k, mappings |-> <<>>] : k \in {"error", "empty", "malformed"}}
    \cup {[kind |-> "json", mappings |-> ms] :
            ms \in UNION {[1..k -> BaMappings] : k \in 0..MaxMappings}}

BaRequests ==
    {Request(b, TRUE, None, BatchHeadroomMs, c) :
        b \in BaBodies, c \in BaCompletions}
    \cup {Request(b, FALSE, None, BatchHeadroomMs,
                  [kind |-> "json", mappings |-> <<>>]) : b \in BaBodies}
    \cup {Request(b, TRUE, None, BatchHeadroomMs - 1,
                  [kind |-> "json", mappings |-> <<>>]) : b \in BaBodies}
    \cup {Request([fields |-> BaFields, availableKeys |-> <<"email">>],
                  TRUE, None, BatchHeadroomMs,
                  [kind |-> "json", mappings |-> <<>>])}

BaBatch ==
    /\ \E request \in BaRequests : HandleBatchFieldMapping(request)
    /\ UNCHANGED routed

BaNext == BaBatch

SpecBatch == Init /\ [][BaNext]_vars

\* Rate-limit workload: store calls of two addresses on two signatures, served
\* side by side, from an empty cache and from the cache after RateLimit - 1
\* accepted store calls of the address ip1 in the running window.
StRequests ==
    {Request([action |-> "store", fieldSignature |-> g, matchedKey |-> "email",
              confidence |-> 95], TRUE, a, 0, NoCompletion) :
        g \in {"s1", "s2"}, a \in {"ip1", "ip2"}}
    \cup {Request([action |-> "store", fieldSignature |-> "s1",
                   matchedKey |-> "email",
                   confidence |-> ConfidenceThreshold - 1],
                  TRUE, "ip1", 0, NoCompletion),
          Request([action |-> "store", fieldSignature |-> "s1",
                   matchedKey |-> "email", confidence |-> 95],
                  FALSE, "ip1", 0, NoCompletion),
          Request([action |-> "store", matchedKey |-> "email",
                   confidence |-> 95], TRUE, "ip1", 0, NoCompletion)}

StInit ==
    /\ PInit /\ DInit
    /\ calls = [p \in {} |-> NoCall(EmptyDict)]
    /\ routed = [httpMethod |-> None, path |-> <<>>, handler |-> None]
    /\ \/ CInit /\ writes = [a \in {} |-> 0]
       \/ /\ redis = [SeededRedis EXCEPT ![RateLimitKey("ip1")] = RateLimit - 1]
          /\ stored = SeededStored
          /\ writes = [a \in {"ip1"} |-> RateLimit - 1]

StIncr ==
    /\ \E p \in 1..MaxCalls, request \in StRequests : StoreIncr(p, request)
    /\ UNCHANGED routed
StGet ==
    /\ \E p \in 1..MaxCalls : StoreGet(p)
    /\ UNCHANGED routed
StUsage ==
    /\ \E p \in 1..MaxCalls : StoreUsage(p)
    /\ UNCHANGED routed
StSet ==
    /\ \E p \in 1..MaxCalls : StoreSet(p)
    /\ UNCHANGED routed

StNext == StIncr \/ StGet \/ StUsage \/ StSet

SpecStoreCalls == StInit /\ [][StNext]_vars

\* Lookup workload: lookups of a cached and of an uncached signature, served
\* command by command side by side with store calls for the cached one.
LoLookups ==
    {Request([fieldSignature |-> "s1"], TRUE, None, SingleHeadroomMs,
             NoCompletion),
     Request(CaAiBody, TRUE, None, SingleHeadroomMs,
             [kind |-> "json", matchedKey |-> "first_name", confidence |-> 90]),
     Request(EmptyDict, TRUE, None, SingleHeadroomMs, NoCompletion)}

LoStores ==
    {Request([action |-> "store", fieldSignature |-> "s1",
              matchedKey |-> "first_name", confidence |-> 95],
             TRUE, "ip2", 0, NoCompletion)}

LoGet ==
    /\ \E p \in 1..MaxCalls, request \in LoLookups : LookupGet(p, request)
    /\ UNCHANGED routed
LoIncr ==
    /\ \E p \in 1..MaxCalls : LookupIncr(p)
    /\ UNCHANGED routed
LoSet ==
    /\ \E p \in 1..MaxCalls : LookupSet(p)
    /\ UNCHANGED routed
LoStoreIncr ==
    /\ \E p \in 1..MaxCalls, request \in LoStores : StoreIncr(p, request)
    /\ UNCHANGED routed

LoNext == LoGet \/ LoIncr \/ LoSet \/ LoStoreIncr \/ StGet \/ StUsage \/ StSet

SpecLookups == StInit /\ [][LoNext]_vars

\* Fault workload: sign-ins and profile upserts during which one store call
\* raises an exception, next to the same requests served without a fault.
FaRegisterFaults ==
    {NoFault, "users.get_item", "users.put_item", "profiles.put_item"}

FaProfileFaults == {NoFault, "profiles.get_item", "profiles.put_item"}

FaRegister ==
    /\ \E body \in IdRegisterBodies, fault \in FaRegisterFaults :
          UserRegister(body, fault)
    /\ UNCHANGED routed
FaCreateProfile ==
    /\ \E body \in InProfileBodies, fault \in FaProfileFaults :
          CreateProfile(body, fault)
    /\ UNCHANGED routed

FaNext == FaRegister \/ FaCreateProfile

SpecFaults == Init /\ [][FaNext]_vars

\* Concurrent-delivery workload: deliveries of one user to one spreadsheet and
\* to the CRM record, and of another user to the same spreadsheet, served
\* side by side.
DeEvents ==
    {Event(b, EmptyDict) :
        b \in {[userId |-> "u1", spreadsheetId |-> "s1", department |-> "eng"],
               [userId |-> "u1", spreadsheetId |-> "s1", department |-> "ops"],
               [userId |-> "u2", spreadsheetId |-> "s1", department |-> "eng"],
               [userId |-> "u1", employeeId |-> "e1", department |-> "eng"],
               EmptyDict}}

DeGet ==
    /\ \E p \in 1..MaxCalls, ev \in DeEvents : DeliveryGet(p, ev.body, ev.headers)
    /\ UNCHANGED routed
DeScan ==
    /\ \E p \in 1..MaxCalls : DeliveryScan(p)
    /\ UNCHANGED routed
DePut ==
    /\ \E p \in 1..MaxCalls : DeliveryPut(p)
    /\ UNCHANGED routed

DeNext == DeGet \/ DeScan \/ DePut

SpecDeliveries == Init /\ [][DeNext]_vars

\* Concurrent-registration workload: registrations of two user ids, complete
\* and incomplete, served side by side.
ReBodies ==
    {[userId |-> "u1", email |-> "a@x"], [userId |-> "u1", email |-> "A@X"],
     [userId |-> "u2", email |-> "b@x"], [userId |-> "u1"]}

ReGet ==
    /\ \E p \in 1..MaxCalls, b \in ReBodies : RegisterGet(p, b)
    /\ UNCHANGED routed
RePutUser ==
    /\ \E p \in 1..MaxCalls : RegisterPutUser(p)
    /\ UNCHANGED routed
RePutProfile ==
    /\ \E p \in 1..MaxCalls : RegisterPutProfile(p)
    /\ UNCHANGED routed

ReNext == ReGet \/ RePutUser \/ RePutProfile

SpecRegisters == Init /\ [][ReNext]_vars

\* Time-budget workload: lookups and batch requests whose remaining execution
\* time is just below, at and above the headroom of their handler, with and
\* without the inputs the completion service needs.
BuLookups ==
    {Request(b, TRUE, None, ms, c) :
        b \in {CaAiBody, [fieldSignature |-> "s2"],
               [fieldSignature |-> "s3", fieldLabel |-> "Email",
                availableKeys |-> <<"email", "first_name">>, openAIKey |-> "sk"]},
        ms \in {SingleHeadroomMs - 1, SingleHeadroomMs, BatchHeadroomMs},
        c \in {NoCompletion,
               [kind |-> "timeout", matchedKey |-> None, confidence |-> 0],
               [kind |-> "malformed", matchedKey |-> None, confidence |-> 0],
               [kind |-> "json", matchedKey |-> None, confidence |-> 90],
               [kind |-> "json", matchedKey |-> "bogus", confidence |-> 90],
               [kind |-> "json", matchedKey |-> "email", confidence |-> 90]}}

BuBatches ==
    {Request(b, TRUE, None, ms, c) :
        b \in BaBodies,
        ms \in {SingleHeadroomMs, BatchHeadroomMs - 1, BatchHeadroomMs},
        c \in {[kind |-> "error", mappings |-> <<>>],
               [kind |-> "json",
                mappings |-> <<[index |-> 0, matchedKey |-> "email",
                                confidence |-> 90]>>]}}

BuLookup ==
    /\ \E request \in BuLookups : FieldMappingRoute(request)
    /\ UNCHANGED routed
BuBatch ==
    /\ \E request \in BuBatches : HandleBatchFieldMapping(request)
    /\ UNCHANGED routed

BuNext == BuLookup \/ BuBatch

SpecBudget == Init /\ [][BuNext]_vars

\* Document workload: uploads, metadata writes and deletes of two users on two
\* document ids, with and without a blob, the object store answering or failing.
DocPath(document_id) == <<"/", "api", "/", "documents", "/", document_id>>

DoForms ==
    {[file |-> "bytes", userId |-> u, filename |-> "f.pdf"] : u \in UserIds}
    \cup {[file |-> "bytes", userId |-> "u1"], [file |-> "bytes"],
          [userId |-> "u1", filename |-> "f.pdf"]}

DoSaveBodies ==
    {[id |-> d, userId |-> u, s3Key |-> S3Key(u, "0a", "f.pdf")] :
        d \in {"d1", "d2"}, u \in UserIds}
    \cup {[id |-> "d1", userId |-> "u1"], [id |-> "d1"]}

DoDeletes ==
    {[path |-> q, query |-> y] :
        q \in {DocPath("d1"), DocPath("d2"), <<"/", "api", "/", "documents", "/">>},
        y \in {[userId |-> "u1"], [userId |-> "u2"], EmptyDict}}

DoUpload ==
    /\ \E f \in DoForms, ok \in BOOLEAN : HandleDocumentUpload(f, "0a", ok)
    /\ UNCHANGED routed
DoSave ==
    /\ \E b \in DoSaveBodies : HandleSaveDocument(b)
    /\ UNCHANGED routed
DoDelete ==
    /\ \E d \in DoDeletes, ok \in BOOLEAN :
          HandleDeleteDocument(d.path, d.query, ok)
    /\ UNCHANGED routed

DoNext == DoUpload \/ DoSave \/ DoDelete

SpecDocuments == Init /\ [][DoNext]_vars

\* Routing workload: every method on every routed path, on a document path
\* and on a path no route names, bare and behind each stage, each path with a
\* body its endpoint accepts.
RoMethods == {"GET", "POST", "PUT", "DELETE", "OPTIONS"}

RoStages ==
    {<<>>, <<"/", "P", "r", "o", "d">>, <<"/", "S", "t", "a", "g", "e">>,
     <<"/", "D", "e", "v">>}

RoPaths ==
    {Path(q) : q \in {<<"api", "user", "register">>, <<"api", "user", "data">>,
                      <<"api", "profiles">>, <<"api", "sync">>,
                      <<"api", "webhook">>,
                      <<"api", "user", "register-by-email">>,
                      <<"api", "field-mapping">>,
                      <<"api", "batch-field-mapping">>,
                      <<"api", "documents", "upload">>, <<"api", "documents">>,
                      <<"api", "documents", "d1">>,
                      <<"api", "documents", "presigned-url">>,
                      <<"health">>, <<"api", "unknown">>}}

RoBody(path) ==
    CASE path = Path(<<"api", "user", "register">>) ->
            [userId |-> "u1", email |-> "a@x"]
      [] path = Path(<<"api", "user", "data">>) ->
            [userId |-> "u1", employeeId |-> "e1", department |-> "eng"]
      [] path = Path(<<"api", "profiles">>) ->
            [userId |-> "u1", profileId |-> "work"]
      [] path = Path(<<"api", "webhook">>) ->
            [userId |-> "u1", spreadsheetId |-> "s1", department |-> "eng"]
      [] path = Path(<<"api", "user", "register-by-email">>) ->
            [userId |-> "u1", email |-> "A@X"]
      [] path = Path(<<"api", "field-mapping">>) ->
            [action |-> "store", fieldSignature |-> "s1",
             matchedKey |-> "email", confidence |-> 95]
      [] path = Path(<<"api", "batch-field-mapping">>) ->
            [fields |-> SubSeq(BaFields, 1, 1),
             availableKeys |-> <<"email", "first_name">>, openAIKey |-> "sk"]
      [] path = Path(<<"api", "documents", "upload">>) ->
            [file |-> "bytes", userId |-> "u1", filename |-> "f.pdf"]
      [] path = Path(<<"api", "documents">>) ->
            [id |-> "d1", userId |-> "u1", s3Key |-> S3Key("u1", "0a", "f.pdf")]
      [] OTHER -> EmptyDict

RoEnv(s3_ok) ==
    [redisUp |-> TRUE, sourceIp |-> "ip1", remainingMs |-> BatchHeadroomMs,
     completion |-> NoCompletion,
     batchCompletion |->
        [kind |-> "json",
         mappings |-> <<[fieldIndex |-> 0, matchedKey |-> "email",
                         confidence |-> 90]>>],
     nonce |-> "0a", s3Ok |-> s3_ok]

RoEvents ==
    {[httpMethod |-> m, path |-> g \o q, body |-> RoBody(q),
      headers |-> EmptyDict, queryStringParameters |-> [userId |-> "u1"],
      env |-> RoEnv(ok)] :
        m \in RoMethods, g \in RoStages, q \in RoPaths, ok \in BOOLEAN}

RoRequest ==
    /\ now < MaxRouted
    /\ \E event \in RoEvents : LambdaHandler(event)

RoNext == RoRequest

SpecRouter == Init /\ [][RoNext]_vars

\* ================================================================== claims
PrimaryEmail(body) ==
    FirstTruthy(<<Get(body, "email"), Get(body, "Email"), Get(body, "userEmail"),
                  Get(body, "googleUserEmail"), Get(body, "zapierUserEmail"),
                  Get(body, "sheetUserEmail")>>)

C5_UnresolvedUserRejected ==
    [][(/\ resp'.op = "webhook"
        /\ now' # now
        /\ ~Truthy(Get(resp'.event, "userId")))
       => LET body == resp'.event
              unknown(e) == \A u \in DOMAIN users :
                                LowerStrip(users[u].email) # LowerStrip(e)
          IN  /\ (Truthy(PrimaryEmail(body)) /\ unknown(PrimaryEmail(body)))
                    => (resp'.status = 404 /\ profiles' = profiles)
              /\ (/\ ~Truthy(PrimaryEmail(body))
                  /\ unknown(HeaderEmail(resp'.headers))
                  /\ unknown(GoogleEmail(body)))
                    => (resp'.status = 400 /\ profiles' = profiles)]_pvars

C5_Witness ==
    /\ resp.op = "webhook" /\ resp.status = 404
    /\ DOMAIN users # {}
    /\ ~Truthy(Get(resp.event, "userId"))

\* C6: register stores the e-mail lower-cased and trimmed, and a later delivery
\* that carries that address in any letter case resolves to the user that
\* registered it.
C6_EmailNormalized ==
    /\ (resp.op = "register" /\ resp.status = 200)
          => /\ users[resp.userId].email \in {"a@x", "b@x"}
             /\ users[resp.userId].email = LowerStrip(resp.event.email)
    /\ (/\ resp.op = "webhook"
        /\ ~Truthy(Get(resp.event, "userId"))
        /\ Truthy(PrimaryEmail(resp.event)))
          => \A u \in DOMAIN registered :
                users[u].email = LowerStrip(PrimaryEmail(resp.event))
                    => (resp.status = 200 /\ resp.userId = u)

C6_Witness ==
    /\ resp.op = "webhook" /\ resp.status = 200
    /\ Get(resp.event, "email") = "A@X"
    /\ resp.userId = "u1" /\ "u1" \in DOMAIN registered

SheetIds == {"s1"}

RowData(row) == [k \in DOMAIN row \ {"row"} |-> row[k]]

\* record q holds one row per delivery of its run, in delivery order
RecordHoldsDeliveries(q) ==
    /\ q \in DOMAIN profiles
    /\ profiles[q].userId = delivered[q].owner
    /\ profiles[q].fields.rowsKind = "list"
    /\ Len(profiles[q].fields.rows) = Len(delivered[q].bodies)
    /\ \A i \in 1..Len(delivered[q].bodies) :
          /\ RowData(profiles[q].fields.rows[i]) = ProfileFields(delivered[q].bodies[i])
          /\ "row" \in DOMAIN profiles[q].fields.rows[i]

Signature(r) == Get(r.request.body, "fieldSignature")

\* a lookup that found the entry of a signature written before
IsHit(prev, r) ==
    /\ r.op = "get" /\ r.status = 200
    /\ Signature(r) \in DOMAIN prev

\* C7 as stated: successive lookups of a stored signature return the stored
\* key and a usage count one greater than the previous lookup's, starting at 1
\* for the first lookup after the store.
C7_Original ==
    [][(now' # now /\ IsHit(stored, resp'))
       => /\ resp'.matchedKey = stored[Signature(resp')].matchedKey
          /\ resp'.usageCount = stored[Signature(resp')].sinceStore + 1]_vars

\* C7 (amended): successive lookups of a stored signature return the stored
\* key and a usage count one greater than the previous lookup's, also across
\* store calls in between, starting at 1 for the first lookup the signature
\* ever gets.
C7_UsageCounts ==
    [][(now' # now /\ IsHit(stored, resp'))
       => /\ resp'.matchedKey = stored[Signature(resp')].matchedKey
          /\ resp'.usageCount = stored[Signature(resp')].lastUsage + 1]_vars

C7_Witness ==
    /\ IsHit(stored, resp)
    /\ resp.usageCount = 2
    /\ stored[Signature(resp)].sinceStore = 2
    /\ redis[UsageKey(Signature(resp))] = 2

\* C8: a store call with confidence below 80 leaves every cache key unchanged
\* (mapping entries, usage counters, rate-limit counters) and, the cache being
\* reachable and the signature given, returns 200 with the message that the
\* match was not stored.
C8_LowConfidenceNotStored ==
    [][(/\ now' # now /\ resp'.op = "store"
        /\ GetOr(resp'.request.body, "confidence", 0) < 80)
       => /\ redis' = redis
          /\ (resp'.request.redisUp /\ Truthy(Signature(resp')))
                => /\ resp'.status = 200
                   /\ resp'.message = "Low confidence match not stored"]_vars

C8_Witness ==
    /\ resp.op = "store" /\ resp.status = 200
    /\ resp.message = "Low confidence match not stored"
    /\ GetOr(resp.request.body, "confidence", 0) = 79
    /\ MappingKey(Signature(resp)) \in DOMAIN redis
    /\ UsageKey(Signature(resp)) \in DOMAIN redis
    /\ RateLimitKey(resp.request.sourceIp) \in DOMAIN redis

\* a store call the handler has to persist: cache reachable, signature and key
\* given, confidence at least 80, the caller's counter below the daily cap
Accepted(store, r) ==
    /\ r.op = "store" /\ r.request.redisUp /\ Truthy(Signature(r))
    /\ GetOr(r.request.body, "confidence", 0) >= 80
    /\ LET rate_limit_key == RateLimitKey(IF r.request.sourceIp = None
                                          THEN "unknown"
                                          ELSE r.request.sourceIp)
       IN  rate_limit_key \in DOMAIN store => store[rate_limit_key] < 100

\* C9: a store call with confidence at least 80 for signature S and key K that
\* is not rate-limited is persisted, and a lookup of S that follows it returns
\* K with the stored confidence, whether or not S had an entry before.
C9_StoreThenLookup ==
    [][/\ (now' # now /\ Accepted(redis, resp'))
          => /\ resp'.status = 200
             /\ MappingKey(Signature(resp')) \in DOMAIN redis'
             /\ redis'[MappingKey(Signature(resp'))].matchedKey
                    = resp'.request.body.matchedKey
             /\ redis'[MappingKey(Signature(resp'))].confidence
                    = resp'.request.body.confidence
       /\ (/\ now' # now
           /\ resp.op = "store" /\ resp.status = 200
           /\ resp.message = "Mapping stored"
           /\ resp'.op = "get" /\ resp'.request.redisUp
           /\ Signature(resp') = Signature(resp))
          => /\ resp'.status = 200
             /\ resp'.matchedKey = resp.request.body.matchedKey
             /\ resp'.confidence = resp.request.body.confidence]_vars

\* a lookup returned the key of a store call that replaced the entry the cache
\* held for the signature from the start
C9_Witness ==
    /\ resp.op = "get" /\ resp.status = 200
    /\ Signature(resp) = "s1"
    /\ resp.matchedKey = "first_name" /\ resp.confidence = 95
    /\ resp.usageCount = 1
    /\ redis[MappingKey("s1")].createdAt = 0

\* C10 as stated: a batch response that passed validation and the time-budget
\* check holds exactly one entry for each field index 0..n-1, whatever the
\* completion service returned; an index the completion service did not cover
\* has matchedKey null and confidence 0.
C10_Original ==
    (resp.op = "batch" /\ resp.status = 200)
        => LET n == Len(resp.request.body.fields)
               returned == resp.request.completion.mappings
               covered == {returned[j].fieldIndex :
                              j \in {k \in 1..Len(returned) :
                                        "fieldIndex" \in DOMAIN returned[k]}}
           IN  /\ Len(resp.mappings) = n
               /\ \A i \in 1..n :
                    /\ resp.mappings[i].fieldIndex = i - 1
                    /\ (i - 1) \notin covered
                          => resp.mappings[i] = NullMapping(i - 1)

\* C11: a delete of a document that exists for the (userId, documentId) of the
\* request answers 200, removes exactly that metadata record and asks the
\* object store to delete the blob the record names; this is so as well when
\* the object store fails the delete.
C11_DeleteRemovesMetadata ==
    [][\A k \in DOMAIN documents :
          (/\ resp'.op = "delete-document"
           /\ k = DocumentKey(resp'.userId, resp'.documentId))
          => /\ resp'.status = 200
             /\ documents' = Without(documents, k)
             /\ Truthy(documents[k].s3Key)
                  => /\ resp'.objectCall = "delete"
                     /\ resp'.objectKey = documents[k].s3Key
                     /\ ~resp'.objectFailed => documents[k].s3Key \notin objects']_vars

\* a delete whose blob delete failed: answered 200, record gone, blob left
C11_Witness ==
    /\ resp.op = "delete-document" /\ resp.status = 200
    /\ resp.objectCall = "delete" /\ resp.objectFailed
    /\ resp.objectKey \in objects
    /\ DocumentKey(resp.userId, resp.documentId) \notin DOMAIN documents

\* C12 (as stated): a request whose path is a stage (/Prod, /Stage, /Dev)
\* followed by a path p is routed to the handler the same method and p alone
\* are routed to.
C12_Original ==
    \A g \in RoStages, q \in RoPaths :
        (routed.path = g \o q /\ routed.httpMethod \in RoMethods \ {"OPTIONS"})
        => routed.handler = Dispatch(routed.httpMethod, q)

\* C13: a delivery resolved to user U leaves every record of another user it
\* does not write as it was, and when the record under its derived id belongs
\* to another user, the rows it writes there are its own row alone: none of
\* the stored rows of that record is carried over.
C13_ForeignRecordNotMerged ==
    [][(resp'.op = "webhook" /\ resp'.status = 200)
       => \A q \in DOMAIN profiles :
            profiles[q].userId # resp'.userId
            => IF q = resp'.profileId
               THEN /\ profiles'[q].userId = resp'.userId
                    /\ profiles'[q].fields.rows =
                         <<NewRow(ProfileFields(resp'.event),
                                  RowNumber(resp'.event, "1"))>>
                    /\ resp'.action = "created"
               ELSE profiles'[q] = profiles[q]]_vars

\* a delivery whose derived id named a record of another user
C13_Witness ==
    /\ resp.op = "webhook" /\ resp.status = 200
    /\ resp.foundOwner \notin {None, resp.userId}
    /\ resp.action = "created"
    /\ Len(profiles[resp.profileId].fields.rows) = 1

\* C14 (as stated): a delivery is accepted, and writes a profile, only for a
\* user that has a record in the user table.
C14_Original ==
    (resp.op = "webhook" /\ resp.status = 200)
    => /\ resp.userId \in DOMAIN users
       /\ resp.profileId \in DOMAIN profiles

\* C15: of the store calls that reach the counter of a network address in one
\* window (valid, confidence of at least 80, cache up), at most RateLimit set
\* a mapping entry, and every call whose count is above RateLimit is answered
\* 429 without having set an entry, also when the calls run side by side.
C15_RateLimitCap ==
    /\ \A a \in DOMAIN writes : writes[a] <= RateLimit
    /\ \A p \in DOMAIN calls :
          calls[p].dailyWrites > RateLimit
          => /\ calls[p].pc = "done"
             /\ calls[p].status = 429
             /\ ~calls[p].wrote

\* a call rejected at the cap while the call that took the last allowed
\* count has its write still ahead
C15_Witness ==
    \E p, q \in DOMAIN calls :
        /\ calls[p].status = 429 /\ calls[p].dailyWrites = RateLimit + 1
        /\ calls[q].pc = "set" /\ calls[q].dailyWrites = RateLimit
        /\ calls[q].request.sourceIp = calls[p].request.sourceIp

\* the durable stores a request changed
StoresWritten ==
    {t \in {"users", "profiles", "documents", "objects"} :
        CASE t = "users" -> users' # users
          [] t = "profiles" -> profiles' # profiles
          [] t = "documents" -> documents' # documents
          [] t = "objects" -> objects' # objects}

C18_Original ==
    resp.raised # None
    => /\ resp.status = 500
       /\ resp.error \in {resp.raised, "Registration failed: " \o resp.raised,
                          "Internal server error: " \o resp.raised}

\* the record an accepted delivery wrote is of the spreadsheet kind
WrittenAsSheet ==
    /\ resp.op = "webhook" /\ resp.status = 200
    /\ profiles[resp.profileId].source = "google-sheets"

\* C19: the profile id of spreadsheet-style data is googlesheets_<id> for the
\* first non-empty spreadsheet or sheet identifier of the payload; without
\* one, googlesheets_zap_<zap id> for the Zap id of the headers; without
\* either, googlesheets_<user id>.  What ranks lower does not enter the id.
C19_SheetIdPriority ==
    WrittenAsSheet
    => LET body == resp.event
           sheet == FirstTruthy(<<Get(body, "spreadsheetId"),
                                  Get(body, "spreadsheet_id"),
                                  Get(body, "sheetId"), Get(body, "sheet_id"),
                                  Get(body, "spreadsheet"),
                                  Get(body, "worksheet")>>)
           zap == FirstTruthy(<<Get(resp.headers, "X-Zapier-Zap-Id"),
                                Get(resp.headers, "X-Zap-Id"),
                                Get(resp.headers, "X-Zapier-Webhook-Id")>>)
       IN  resp.profileId =
               IF Truthy(sheet) THEN "googlesheets_" \o sheet
               ELSE IF Truthy(zap) THEN "googlesheets_zap_" \o zap
               ELSE "googlesheets_" \o resp.userId

\* a delivery with a spreadsheet id and a Zap id, filed under the former
C19_Witness ==
    /\ WrittenAsSheet
    /\ Truthy(Get(resp.event, "spreadsheetId"))
    /\ Truthy(Get(resp.headers, "X-Zapier-Zap-Id"))
    /\ resp.profileId = "googlesheets_" \o resp.event.spreadsheetId

\* C20: an accepted delivery is filed as spreadsheet-style exactly when a key
\* of the payload is a row-number key, a sheet-identifier key or a
\* numbered-column key, the source tag names sheets, or the payload has no
\* employeeId and no id; every other payload is filed as CRM-style.
C20_Classification ==
    (resp.op = "webhook" /\ resp.status = 200)
    => LET body == resp.event
           sheetStyle ==
               \/ \E k \in DOMAIN body :
                     \/ Lower(k) \in {"rownumber", "row_number", "row", "rowid",
                                      "row_id", "rownum"}
                     \/ Lower(k) \in {"spreadsheetid", "sheetid", "sheet_id",
                                      "spreadsheet_id", "googlesheets",
                                      "sheetname", "spreadsheet", "worksheet"}
                     \/ HasColumnPrefix(k)
               \/ Lower(GetOr(body, "source", ""))
                     \in {"google-sheets", "googlesheets", "sheets"}
               \/ /\ ~Truthy(Get(body, "employeeId"))
                  /\ ~Truthy(Get(body, "id"))
           record == profiles[resp.profileId]
       IN  IF sheetStyle
           THEN /\ record.source = "google-sheets"
                /\ record.profileType = "google-sheets"
           ELSE /\ record.source = "zapier"
                /\ record.sourceId = "crm_" \o resp.userId

\* a delivery with a per-record identifier, spreadsheet-style by a
\* numbered-column key alone
C20_Witness ==
    /\ WrittenAsSheet
    /\ Truthy(Get(resp.event, "employeeId"))
    /\ \E k \in DOMAIN resp.event : HasColumnPrefix(k)
    /\ ~HasRowNumber(resp.event) /\ ~HasSheetIndicators(resp.event)
    /\ ~HasSourceIndicator(resp.event)

\* C21: the record a delivery puts holds the rows the delivery read, followed
\* by its own row, whatever the record holds at the time of the put: the put
\* is not conditional and the read is not repeated.  Two deliveries to one
\* profile id that both read before either writes thus leave the row of only
\* one of them.
C21_PutWritesRowsRead ==
    [][\A p \in DOMAIN calls :
          (calls[p].pc = "put" /\ calls'[p].pc = "done")
          => LET call == calls[p]
                 own == NewRow(ProfileFields(call.body),
                               RowNumber(call.body,
                                         IF call.existing = None THEN "1"
                                         ELSE ToString(Len(RowsArray(call.base.fields)) + 1)))
             IN  /\ calls'[p].status = 200
                 /\ profiles'[call.target].fields.rows =
                        IF call.existing = None THEN <<own>>
                        ELSE Append(RowsArray(call.base.fields), own)]_vars

\* two deliveries of one user to one profile id, both answered 200, and the
\* record holds one row
C21_Witness ==
    \E p, q \in DOMAIN calls :
        /\ p # q
        /\ calls[p].pc = "done" /\ calls[p].status = 200
        /\ calls[q].pc = "done" /\ calls[q].status = 200
        /\ calls[p].target = calls[q].target
        /\ calls[p].userId = calls[q].userId
        /\ calls[p].body # calls[q].body
        /\ \A r \in DOMAIN calls : r \in {p, q}
        /\ Len(profiles[calls[p].target].fields.rows) = 1

\* C22: of the registrations of one user id that run side by side, at most
\* one answers isNewUser = true, and the default profile of the user is
\* written at most once.
C22_Original ==
    \A u \in {"u1", "u2"} :
        /\ Cardinality({p \in DOMAIN calls : /\ calls[p].pc = "done"
                                             /\ calls[p].status = 200
                                             /\ calls[p].userId = u
                                             /\ calls[p].isNewUser}) <= 1
        /\ GetOr(writes, u, 0) <= 1

\* C23: the matched key a single-field lookup answers or caches from the
\* completion service is one of the candidate keys of the request: the key
\* the service named, or the candidate equal to it after normalizing; and
\* the confidence answered and cached with it lies in 0..95.
C23_AiMatchValidated ==
    [][(resp'.op = "get" /\ resp'.source = "ai")
       => LET body == resp'.request.body
              named == resp'.request.completion.matchedKey
              key == MappingKey(body.fieldSignature)
          IN  /\ resp'.status = 200
              /\ resp'.matchedKey \in Range(body.availableKeys)
              /\ \/ resp'.matchedKey = named
                 \/ /\ named \notin Range(body.availableKeys)
                    /\ NormalizeKey(resp'.matchedKey) = NormalizeKey(named)
              /\ resp'.confidence \in 0..MaxAiConfidence
              /\ redis'[key].matchedKey = resp'.matchedKey
              /\ redis'[key].confidence = resp'.confidence
              /\ \A k \in DOMAIN redis' \ {key} :
                     k \in DOMAIN redis /\ redis'[k] = redis[k]]_vars

\* a lookup answered with the candidate that equals the named key only after
\* normalizing, and one answered with a confidence cut to 95
C23_Witness ==
    /\ resp.op = "get" /\ resp.source = "ai" /\ resp.status = 200
    /\ \/ resp.matchedKey # resp.request.completion.matchedKey
       \/ resp.confidence < resp.request.completion.confidence
    /\ redis[MappingKey(resp.request.body.fieldSignature)].matchedKey
          = resp.matchedKey

\* the request reached the check of the remaining time: a lookup that missed
\* the cache and carries the inputs of the completion service, or a batch
\* request that carries them
ReachedTimeCheck(store, r) ==
    LET body == r.request.body
    IN  \/ /\ r.op = "get" /\ r.request.redisUp
           /\ Truthy(Get(body, "fieldSignature"))
           /\ MappingKey(Get(body, "fieldSignature")) \notin DOMAIN store
           /\ Truthy(Get(body, "fieldLabel"))
           /\ GetOr(body, "availableKeys", <<>>) # <<>>
           /\ Truthy(Get(body, "openAIKey"))
        \/ /\ r.op = "batch"
           /\ GetOr(body, "fields", <<>>) # <<>>
           /\ GetOr(body, "availableKeys", <<>>) # <<>>
           /\ Truthy(Get(body, "openAIKey"))

\* C24: a request that reaches the check of the remaining time with less than
\* the headroom of its handler (5000 ms for a lookup, 10000 ms for a batch)
\* is answered 504, does not call the completion service and leaves the cache
\* as it was.
C24_NoCompletionBelowHeadroom ==
    [][(/\ now' # now
        /\ ReachedTimeCheck(redis, resp')
        /\ resp'.request.remainingMs < (IF resp'.op = "get" THEN 5000 ELSE 10000))
       => /\ resp'.status = 504
          /\ resp'.invocations = 0
          /\ redis' = redis]_vars

\* a request answered 504 one millisecond below the headroom, the cache
\* holding an entry written by an earlier request
C24_Witness ==
    /\ resp.status = 504
    /\ resp.request.remainingMs = (IF resp.op = "get" THEN 4999 ELSE 9999)
    /\ resp.invocations = 0
    /\ redis # EmptyRedis

\* the completion service failed, named no key, or named a key that is no
\* candidate of the request, exactly or after normalizing
NoValidCandidate(request) ==
    LET completion == request.completion
        available_keys == GetOr(request.body, "availableKeys", <<>>)
    IN  \/ completion.kind # "json"
        \/ completion.matchedKey \in {None, ""}
        \/ \A i \in 1..Len(available_keys) :
              NormalizeKey(available_keys[i]) # NormalizeKey(completion.matchedKey)

\* C25: a single-field lookup that misses the cache and gets from the
\* completion service a failure (timeout, transport error, malformed JSON) or
\* no valid candidate is answered 404, has called the service once and no
\* more, and leaves the cache as it was.
C25_FailedCompletionNotFound ==
    [][(/\ now' # now
        /\ resp'.op = "get"
        /\ ReachedTimeCheck(redis, resp')
        /\ resp'.request.remainingMs >= 5000
        /\ NoValidCandidate(resp'.request))
       => /\ resp'.status = 404
          /\ resp'.invocations = 1
          /\ redis' = redis]_vars

\* a lookup answered 404 after the completion service named a key that is no
\* candidate, the cache holding the entry of an earlier lookup
C25_Witness ==
    /\ resp.op = "get" /\ resp.status = 404 /\ resp.invocations = 1
    /\ resp.request.completion.kind = "json"
    /\ resp.request.completion.matchedKey = "bogus"
    /\ redis # EmptyRedis

\* C26: every stored profile whose source is not 'user' has as fields a
\* container with a list of rows, each row carrying the tag 'row'.
C26_Original ==
    \A q \in DOMAIN profiles :
        profiles[q].source # "user"
        => /\ profiles[q].fields.rowsKind = "list"
           /\ \A i \in 1..Len(profiles[q].fields.rows) :
                 "row" \in DOMAIN profiles[q].fields.rows[i]

\* C27: every user id with a successful register call owns a stored profile
\* with the label 'Default Profile' and the default flag set.
C27_Original ==
    \A u \in DOMAIN registered :
        \E q \in DOMAIN profiles :
            /\ profiles[q].userId = u
            /\ profiles[q].label = "Default Profile"
            /\ profiles[q].isDefault

\* C28: a webhook delivery resolved to a user leaves every stored profile
\* owned by another user as it was, also the one stored under the profile id
\* derived for the delivery.
C28_Original ==
    [][(now' # now /\ resp'.op = "webhook" /\ resp'.status = 200)
       => \A q \in DOMAIN profiles :
             profiles[q].userId # resp'.userId
             => /\ q \in DOMAIN profiles'
                /\ profiles'[q] = profiles[q]]_vars

\* C29: a direct profile upsert leaves the owner of a stored profile as it
\* was: a request whose userId is not the owner does not replace the record.
C29_Original ==
    [][(now' # now /\ resp'.op = "create-profile")
       => \A q \in DOMAIN profiles :
             /\ q \in DOMAIN profiles'
             /\ profiles'[q].userId = profiles[q].userId]_vars

\* C30: the SET of a lookup that hit the cache leaves the matched key and the
\* confidence stored for its signature as they are at that time, also when a
\* store call for the signature has completed since the lookup's GET.
C30_Original ==
    [][\A p \in DOMAIN calls :
          (calls[p].pc = "lookup_set" /\ calls'[p].pc = "done" /\ calls[p].found)
          => LET key == MappingKey(calls[p].request.body.fieldSignature)
             IN  /\ redis'[key].matchedKey = redis[key].matchedKey
                 /\ redis'[key].confidence = redis[key].confidence]_vars

====
